---- MODULE Spec2Model ----
(***************************************************************************)
(* async_cache_updater: a memoization layer over Redis with time buckets,  *)
(* stale-while-revalidate refresh and a per-computation index.             *)
(*                                                                         *)
(* Time is an integer number of ticks; one tick is the finest instant the  *)
(* code distinguishes (utils._us), and an hour is HourLen ticks.  An aware *)
(* datetime is the instant it denotes; a zone is its utc offset in ticks.  *)
(* A unix time (utils.current_unix_time) is the same number of ticks.      *)
(***************************************************************************)
EXTENDS Integers, Sequences, FiniteSets, Bags, TLC

(* ------------------------------- bounds -------------------------------- *)

\* The clock runs from 0 to MaxTime.
MaxTime == 2
\* The user computation is invoked at most MaxCalls times.
MaxCalls == 2
\* At most MaxTasks coroutines (foreground calls and refresh tasks) in flight.
MaxTasks == 2
\* The callers of find_bucket_ranges take start and end from 0 to MaxRange.
MaxRange == 9
\* Ticks in one hour (scaled; the hourly rule's bucket is one hour long).
HourLen == 2

(* --------------------------- python values ----------------------------- *)

\* Python's None, among values that are otherwise numbers >= 0.
None == -1
\* utils._us, timedelta(microseconds=1): one tick.
_us == 1

(* ------------------------------ settings ------------------------------- *)

KEY_PREFIX == "cache_updater"
INDEX_PREFIX == "cache_index"
REFRESH_PREFIX == "cache_refresh_time"
UPDATED_PREFIX == "cache_updated_time"
DEFAULT_TIMEZONE == "US/Eastern"
\* settings.ONE_HOUR, the default of DEFAULT_TIMEOUT_TTL, in ticks.
DEFAULT_TIMEOUT_TTL == HourLen
DEFAULT_TIMEOUT_REFRESH == None
DEFAULT_REFRESH_STRATEGY == "all"

\* cache_settings after CacheSettings.__init__, without environment
\* variables: DISABLED and the three defaults above, which the signature of
\* async_cache_updater reads once, when the module is imported.
ImportedSettings ==
    [ DISABLED                 |-> FALSE,
      DEFAULT_TIMEOUT_TTL      |-> DEFAULT_TIMEOUT_TTL,
      DEFAULT_TIMEOUT_REFRESH  |-> DEFAULT_TIMEOUT_REFRESH,
      DEFAULT_REFRESH_STRATEGY |-> DEFAULT_REFRESH_STRATEGY ]

(* ---------------------------- time algebra ----------------------------- *)

\* The instant at which daylight time ends in US/Pacific: its wall clock
\* goes back one hour and reads the hour before the change a second time.
DstEnd == 3 * HourLen

\* timezone.FixedOffset.utcoffset / pytz: the offset from UTC of the zone's
\* wall clock at the instant dt, in ticks.  UTC, America/Halifax and
\* US/Eastern have no DST change inside the modelled window; US/Pacific has
\* the end of its daylight time there.
utcoffset(tz, dt) ==
    CASE tz = "UTC" -> 0
      [] tz = "America/Halifax" -> -(4 * HourLen)
      [] tz = "US/Eastern" -> -(5 * HourLen)
      [] tz = "US/Pacific" -> IF dt < DstEnd THEN -(7 * HourLen)
                              ELSE -(8 * HourLen)

\* timezone.localtime: the same instant, read on tz's wall clock.  The model
\* keeps the instant and computes the wall-clock reading where it is used.
wallclock(dt, tz) == dt + utcoffset(tz, dt)

\* utils.local_strftime(dt, tz, '%Y-%m-%dT%H'): the wall-clock date and hour.
local_strftime_hour(dt, tz) == "H" \o ToString(wallclock(dt, tz) \div HourLen)

\* utils.get_hourly_range: the wall-clock hour holding dt, as instants.
get_hourly_range(dt, tz) ==
    LET start == dt - (wallclock(dt, tz) % HourLen)
        end   == start + HourLen
    IN  <<start, end - _us>>

\* buckets.hourly
hourly(dt, tz) == local_strftime_hour(get_hourly_range(dt, tz)[1], tz)

\* buckets.get_bucket / buckets.generate_bucket_name for the named rules.
generate_bucket_name(bucket, dt, tz) ==
    CASE bucket = "hourly" -> hourly(dt, tz)

\* utils.tz_delta_add for a delta below one day: plain addition.
tz_delta_add(dt, tz, delta) == dt + delta

\* utils.check_bucket_delta: delta changes the label, and changes it again
\* when applied twice.
check_bucket_delta(bucket, dt, tz, delta) ==
    LET start_bucket    == generate_bucket_name(bucket, dt, tz)
        previous_bucket == generate_bucket_name(bucket, tz_delta_add(dt, tz, delta), tz)
    IN  /\ previous_bucket # start_bucket
        /\ generate_bucket_name(bucket, tz_delta_add(dt, tz, 2 * delta), tz)
               # previous_bucket

\* The while loop of utils.find_bucket_edge: walk by delta while the label stays.
RECURSIVE walk_edge(_, _, _, _)
walk_edge(bucket, edge_dt, tz, delta) ==
    IF generate_bucket_name(bucket, tz_delta_add(edge_dt, tz, delta), tz)
           = generate_bucket_name(bucket, edge_dt, tz)
    THEN walk_edge(bucket, tz_delta_add(edge_dt, tz, delta), tz, delta)
    ELSE edge_dt

\* utils.find_bucket_edge: the first i < check_range whose multiple of delta
\* passes check_bucket_delta decides; None when there is none.
RECURSIVE find_bucket_edge_from(_, _, _, _, _, _)
find_bucket_edge_from(bucket, dt, tz, delta, check_range, i) ==
    IF i >= check_range THEN None
    ELSE IF check_bucket_delta(bucket, dt, tz, delta * (i + 1))
         THEN walk_edge(bucket, dt, tz, delta)
         ELSE find_bucket_edge_from(bucket, dt, tz, delta, check_range, i + 1)

find_bucket_edge(bucket, dt, tz, delta, check_range) ==
    find_bucket_edge_from(bucket, dt, tz, delta, check_range, 0)

\* The probe windows of utils.find_bucket_start / find_bucket_step: 30 of the
\* 60 minutes of an hour, and 12 hours.
MinuteProbes == HourLen \div 2
HourProbes == 12

\* datetime.replace(minute=0, second=0, microsecond=0) on tz's wall clock.
replace_minute0(dt, tz) == dt - (wallclock(dt, tz) % HourLen)

\* utils.find_bucket_start, the minute and hour rungs of its ladder (a tick is
\* the model's minute; the rules modelled change label within 12 hours).
find_bucket_start(bucket, dt, tz) ==
    LET first_minute == find_bucket_edge(bucket, dt, tz, -1, MinuteProbes)
        start_hour   == replace_minute0(dt, tz)
        first_hour   == find_bucket_edge(bucket, start_hour, tz, -HourLen, HourProbes)
    IN  IF first_minute # None THEN first_minute ELSE first_hour

\* The for loops of utils.find_bucket_step: the first multiple of unit that
\* passes check_bucket_delta; None when there is none.
RECURSIVE find_step_from(_, _, _, _, _, _)
find_step_from(bucket, dt, tz, unit, range, i) ==
    IF i >= range THEN None
    ELSE IF check_bucket_delta(bucket, dt, tz, unit * (i + 1))
         THEN unit * (i + 1)
         ELSE find_step_from(bucket, dt, tz, unit, range, i + 1)

\* utils.find_bucket_step, the minute and hour rungs of its ladder.
find_bucket_step(bucket, dt, tz) ==
    LET delta_minute == find_step_from(bucket, dt, tz, 1, MinuteProbes, 0)
        start_hour   == replace_minute0(dt, tz)
        delta_hour   == find_step_from(bucket, start_hour, tz, HourLen, HourProbes, 0)
    IN  IF delta_minute # None THEN delta_minute ELSE delta_hour

\* utils.get_bucket_range
get_bucket_range(bucket, dt, tz) ==
    LET start == find_bucket_start(bucket, dt, tz)
        step  == find_bucket_step(bucket, start, tz)
        end   == tz_delta_add(start, tz, step) - _us
    IN  <<start, end>>

\* The while loop of utils.find_bucket_ranges: the buckets after the one that
\* ends at bucket_end, up to the one that holds end_dt.
RECURSIVE more_bucket_ranges(_, _, _, _, _)
more_bucket_ranges(bucket_start, bucket_end, end_dt, tz, step) ==
    IF bucket_end < end_dt
    THEN LET next_start == tz_delta_add(bucket_start, tz, step)
             next_end   == tz_delta_add(next_start, tz, step) - _us
         IN  <<<<next_start, next_end>>>>
                 \o more_bucket_ranges(next_start, next_end, end_dt, tz, step)
    ELSE <<>>

\* utils.find_bucket_ranges, for start <= end.
find_bucket_ranges(bucket, start, end, tz) ==
    LET bucket_start == find_bucket_start(bucket, start, tz)
        step         == find_bucket_step(bucket, bucket_start, tz)
        bucket_end   == tz_delta_add(bucket_start, tz, step) - _us
    IN  <<<<bucket_start, bucket_end>>>>
            \o more_bucket_ranges(bucket_start, bucket_end, end, tz, step)

\* The for loop of utils.latest_bucket_ranges, its list reversed: the
\* num_buckets buckets that end with the one starting at start.
RECURSIVE earlier_bucket_ranges(_, _, _, _, _)
earlier_bucket_ranges(start, end, tz, step, num_buckets) ==
    IF num_buckets = 0 THEN <<>>
    ELSE Append(earlier_bucket_ranges(tz_delta_add(start, tz, -step), start - _us,
                                      tz, step, num_buckets - 1),
                <<start, end>>)

\* utils.latest_bucket_ranges, for num_buckets > 0.
latest_bucket_ranges(bucket, dt, tz, num_buckets) ==
    LET start == find_bucket_start(bucket, dt, tz)
        step  == find_bucket_step(bucket, start, tz)
        end   == tz_delta_add(start, tz, step) - _us
    IN  earlier_bucket_ranges(start, end, tz, step, num_buckets)

(* ----------------------------- registration ---------------------------- *)

\* bucket=None of the decorator (a rule is named by a string).
NoBucket == "None"

\* The keyword parameters of decorators.async_cache_updater.
DecoratorParams ==
    {"fn", "bucket", "client", "default_dt", "lookup_name", "refresh_strategy",
     "timeout_refresh", "timeout_ttl", "timestamp_name", "tz_name", "tz_lookup"}

\* The keyword arguments the model's registrations give to the decorator.
NoOptions == [k \in {} |-> None]
WithRefresh == "timeout_refresh" :> 1
Hourly == "bucket" :> "hourly"
Latest == "refresh_strategy" :> "latest"
IgnoreArgs == "ignore_args" :> "ignore_me"

\* An option of the registration, or the default of the decorator's signature.
Opt(kwargs, name, default) == IF name \in DOMAIN kwargs THEN kwargs[name] ELSE default

\* decorators.async_cache_updater: binding the call's keywords to the
\* signature raises TypeError for a keyword it does not have; otherwise the
\* decorated function carries the options, defaults from cache_settings.
async_cache_updater(func, kwargs) ==
    [ func             |-> func,   \* "number", or "optional": may return None
      raised           |-> IF DOMAIN kwargs \subseteq DecoratorParams
                           THEN "" ELSE "TypeError",
      kwargs           |-> DOMAIN kwargs,
      client           |-> Opt(kwargs, "client", "None"),
      bucket           |-> Opt(kwargs, "bucket", NoBucket),
      refresh_strategy |-> Opt(kwargs, "refresh_strategy", DEFAULT_REFRESH_STRATEGY),
      timeout_refresh  |-> Opt(kwargs, "timeout_refresh", DEFAULT_TIMEOUT_REFRESH),
      timeout_ttl      |-> Opt(kwargs, "timeout_ttl", DEFAULT_TIMEOUT_TTL) ]

timestamp_name == "dt"
tz_name == "tz"
func_module == "tests.test_async_cache_updater"

VARIABLES
    cache_settings, \* settings.cache_settings: the settings setup can change
    DEFAULT_CLIENT, \* cache_settings.DEFAULT_CLIENT: None until setup_client
    reg,      \* the registration: the closure of _decorator
    now,      \* the clock read by timezone.tz_now
    redis,    \* the store's string keys: key -> [val: payload, ex: expiry]
    zsets,    \* the store's sorted sets: key -> (member -> score)
    tasks,    \* the coroutines in flight, a bag of their frames
    ncalls,   \* how many times the user computation was invoked
    nmsets,   \* how many MSET commands the store received
    ret       \* what the step just taken returned to a caller of cached_func

vars == <<cache_settings, DEFAULT_CLIENT, reg, now, redis, zsets, tasks, ncalls, nmsets, ret>>

\* inspect.getfullargspec(func)[0] of the decorated function: the test module's
\* two-argument function, or a bucketed function with dt and tz.
func_args == IF reg.bucket = NoBucket
             THEN <<"arg", "ignore_me">>
             ELSE <<"arg", timestamp_name, tz_name>>
func_name == IF reg.bucket = NoBucket THEN "func_with_ignored_args"
             ELSE "avg_month_score"

(* ------------------------------ key codec ------------------------------ *)

\* str.join
RECURSIVE join(_, _)
join(sep, xs) ==
    IF xs = <<>> THEN ""
    ELSE IF Len(xs) = 1 THEN xs[1]
    ELSE xs[1] \o sep \o join(sep, Tail(xs))

\* str() of an argument value: the arguments of the model are strings.
str(v) == v

\* utils.hash_key: SHA-1, taken to be free of collisions.
hash_key(value) == "sha1(" \o value \o ")"

\* The names of func_args that enter the key.
RECURSIVE key_arg_names(_)
key_arg_names(names) ==
    IF names = <<>> THEN <<>>
    ELSE IF Head(names) \in {timestamp_name, tz_name}
         THEN key_arg_names(Tail(names))
         ELSE <<Head(names)>> \o key_arg_names(Tail(names))

\* get_cache_key that joins the timestamp and the zone like other arguments.
get_cache_key_with_time(call_args) ==
    LET arglist    == [i \in 1..Len(func_args) |->
                          IF func_args[i] = timestamp_name
                          THEN ToString(call_args[func_args[i]])
                          ELSE str(call_args[func_args[i]])]
        cache_args == <<KEY_PREFIX, func_module, func_name, join(":", arglist)>>
    IN  hash_key(join(":", cache_args))

\* decorators.get_cache_key
get_cache_key(call_args) ==
    LET names      == key_arg_names(func_args)
        arglist    == [i \in 1..Len(names) |-> str(call_args[names[i]])]
        cache_args == <<KEY_PREFIX, func_module, func_name, join(":", arglist)>>
        with_label == IF reg.bucket # NoBucket
                      THEN Append(cache_args,
                                  generate_bucket_name(reg.bucket,
                                                       call_args[timestamp_name],
                                                       call_args[tz_name]))
                      ELSE cache_args
    IN  hash_key(join(":", with_label))

\* decorators.get_index_key
get_index_key == INDEX_PREFIX \o ":" \o func_module \o ":" \o func_name

\* decorators.get_updated_key
get_updated_key(cache_key) == UPDATED_PREFIX \o ":" \o cache_key

\* decorators.get_refresh_key
get_refresh_key(cache_key) == REFRESH_PREFIX \o ":" \o cache_key

(* ---------------------------- store adapter ---------------------------- *)

\* get_cache_client that finds a client in any case.
get_cache_client_lenient(client) == ""

\* cache.get_cache_client: the exception it raises ("" when it returns the
\* client).  A client is "None" or "Redis", an aioredis.Redis.
get_cache_client(client) ==
    LET found == IF client # "None" THEN client ELSE DEFAULT_CLIENT
    IN  IF found = "None" THEN "RuntimeError" ELSE ""

\* The store operations of the registration find their client.
Connected == get_cache_client(reg.client) = ""

\* Redis's nil reply.
Nil == <<>>

\* cache._serialize: a pickle of the payload.
_serialize(payload) == <<"pickle", payload>>

\* cache._deserialize: the payload of a pickle, and None for nil.
_deserialize(payload) == IF payload # Nil THEN payload[2] ELSE None

\* conn.get: the bytes stored under key, or nil.
conn_get(key) == IF key \in DOMAIN redis THEN redis[key].val ELSE Nil

\* cache.get that returns the default without looking at the reply.
get_default_only(key, default) == default

\* cache.get
get(key, default) ==
    LET result == conn_get(key)
    IN  IF result = Nil THEN default ELSE _deserialize(result)

\* A get_many that keeps the keys whose stored value is None.
get_many_keeps_none(keys) ==
    LET values == [i \in 1..Len(keys) |-> _deserialize(conn_get(keys[i]))]
        held   == {i \in 1..Len(keys) : keys[i] \in DOMAIN redis}
    IN  [k \in {keys[i] : i \in held} |->
            values[CHOOSE i \in held : keys[i] = k /\ \A j \in held : keys[j] = k => j <= i]]

\* cache.get_many: conn.mget, and the keys whose value is not None.
get_many(keys) ==
    LET values == [i \in 1..Len(keys) |-> _deserialize(conn_get(keys[i]))]
        held   == {i \in 1..Len(keys) : values[i] # None}
    IN  [k \in {keys[i] : i \in held} |->
            values[CHOOSE i \in held : keys[i] = k /\ \A j \in held : keys[j] = k => j <= i]]

\* dict.get(key) of a result of get_many.
dict_get(d, key) == IF key \in DOMAIN d THEN d[key] ELSE None

\* cache.set_many: conn.mset of the pickled values; timeout is not passed on,
\* and MSET stores its keys without an expiry.
set_many(data, timeout) ==
    [k \in DOMAIN redis \cup DOMAIN data |->
        IF k \in DOMAIN data
        THEN [val |-> _serialize(data[k]), ex |-> None]
        ELSE redis[k]]

\* The sorted set under key (an absent key is an empty sorted set).
zset(key) == IF key \in DOMAIN zsets THEN zsets[key] ELSE [m \in {} |-> 0]

\* A ZREMRANGEBYSCORE that leaves the members scored max in the set.
zremrangebyscore_below(key, min, max) ==
    LET kept == {m \in DOMAIN zset(key) : ~(min <= zset(key)[m] /\ zset(key)[m] < max)}
    IN  [k \in DOMAIN zsets \cup {key} |->
            IF k = key THEN [m \in kept |-> zset(key)[m]] ELSE zsets[k]]

\* conn.zremrangebyscore(key, min, max): both ends inclusive.
zremrangebyscore(key, min, max) ==
    LET kept == {m \in DOMAIN zset(key) : ~(min <= zset(key)[m] /\ zset(key)[m] <= max)}
    IN  [k \in DOMAIN zsets \cup {key} |->
            IF k = key THEN [m \in kept |-> zset(key)[m]] ELSE zsets[k]]

\* conn.zadd(key, {member: score})
zadd(key, member, score) ==
    [k \in DOMAIN zsets \cup {key} |->
        IF k = key
        THEN [m \in DOMAIN zset(key) \cup {member} |->
                 IF m = member THEN score ELSE zset(key)[m]]
        ELSE zsets[k]]

\* '-inf' as a score bound: below every score of the model.
NegInf == -1
\* '+inf' as a score bound: above every score of the model.
PosInf == MaxTime + 1

\* A ZRANGEBYSCORE whose range is open at both ends.
zrangebyscore_open(key, min, max) ==
    LET in_range == {m \in DOMAIN zset(key) : min < zset(key)[m] /\ zset(key)[m] < max}
    IN  CHOOSE members \in [1..Cardinality(in_range) -> in_range] :
            /\ \A i, j \in DOMAIN members : i # j => members[i] # members[j]
            /\ \A i, j \in DOMAIN members :
                   i < j => zset(key)[members[i]] <= zset(key)[members[j]]

\* conn.zrangebyscore(key, min, max): the members with min <= score <= max, in
\* the order of their scores (members of one score in an order of the store's).
zrangebyscore(key, min, max) ==
    LET in_range == {m \in DOMAIN zset(key) : min <= zset(key)[m] /\ zset(key)[m] <= max}
    IN  CHOOSE members \in [1..Cardinality(in_range) -> in_range] :
            /\ \A i, j \in DOMAIN members : i # j => members[i] # members[j]
            /\ \A i, j \in DOMAIN members :
                   i < j => zset(key)[members[i]] <= zset(key)[members[j]]

\* delete_many that deletes nothing.
delete_many_nothing(keys) == redis

\* cache.delete_many: conn.delete(*keys), for a key list that is not empty.
delete_many(keys) ==
    [k \in DOMAIN redis \ {keys[i] : i \in DOMAIN keys} |-> redis[k]]

(* ------------------------------- frames -------------------------------- *)

EmptyDict == [k \in {} |-> None]

\* The frame of a coroutine at its next suspension point pc: a cached_func
\* call that awaits the read of its value ("call"), on its way to a hit
\* ("hit"), after a miss ("miss") or with force_cache ("forced"), a task made
\* by run_cache_refresh ("refresh"), a call of retrieve_many_buckets
\* ("series"), or a call of clear_cache ("clear").
Frame(path, pc, call_args, cache_key, cache_ttl, result) ==
    [ path |-> path, pc |-> pc, call_args |-> call_args, cache_key |-> cache_key,
      cache_ttl |-> cache_ttl,
      force_cache |-> FALSE,    \* cached_func's force_cache
      force_refresh |-> FALSE,  \* cached_func's force_refresh
      result |-> result,        \* cached_func's result, read by cache.get
      output |-> None,          \* run_and_cache's output
      cache_data |-> EmptyDict, \* save_to_cache's cache_data
      index_now |-> None,       \* update_index's now
      series |-> <<>>,          \* retrieve_many_buckets: (cache_key, timestamp)
      results |-> EmptyDict,    \* retrieve_many_buckets: cache_key -> value
      bucket_args |-> EmptyDict,\* retrieve_many_buckets: the arguments of the
                                \* run_and_cache under way
      found |-> <<>>,           \* retrieve_many_buckets: the keys read;
                                \* clear_index: cache_keys
      after |-> None,           \* clear_cache's after
      before |-> None,          \* clear_cache's before
      missing |-> <<>> ]        \* retrieve_many_buckets: the keys yet to compute

\* No call returns in this step.
NoReturn == [ how |-> "none", cache_key |-> "", force_cache |-> FALSE,
              force_refresh |-> FALSE, value |-> None, refresh |-> FALSE ]

\* What the step hands to the caller: how the call ended ("hit", "miss",
\* "forced", "series" for retrieve_many_buckets, "clear" for clear_cache, or
\* the exception the call raised), the call's cache_key,
\* force_cache and force_refresh, the value returned, and whether it called
\* run_cache_refresh.
Outcome(how, t, value, refresh) ==
    [ how |-> how, cache_key |-> t.cache_key, force_cache |-> t.force_cache,
      force_refresh |-> t.force_refresh, value |-> value, refresh |-> refresh ]

Put(t) == SetToBag({t})

\* The arguments func is awaited with.  The results of the model's user
\* computations do not depend on their arguments, so the frame of run_and_cache
\* keeps none of them.
func_kwargs(call_args) == EmptyDict

\* run_cache_refresh that hands the index key to run_and_cache.
run_cache_refresh_index_key(call_args, cache_key, cache_ttl) ==
    Frame("refresh", "func", func_kwargs(call_args), get_index_key, cache_ttl, None)

\* decorators.run_cache_refresh: asyncio.create_task(run_and_cache(...)).
run_cache_refresh(call_args, cache_key, cache_ttl) ==
    Frame("refresh", "func", func_kwargs(call_args), cache_key, cache_ttl, None)

(* ---------------------------- refresh policy --------------------------- *)

\* should_refresh with >= in place of > on refresh_at.
should_refresh_1_inclusive(call_args, refresh_at, time) ==
    IF refresh_at # None /\ refresh_at >= time THEN "False"
    ELSE IF reg.refresh_strategy = "latest"
         THEN IF generate_bucket_name(reg.bucket, call_args[timestamp_name],
                                      call_args[tz_name])
                     # generate_bucket_name(reg.bucket, time, call_args[tz_name])
              THEN "updated_at" ELSE "True"
         ELSE "True"

\* decorators.should_refresh from the read of refresh_at to its next await, for
\* a non-null timeout_refresh: "False", "True", or "updated_at" when the
\* verdict needs updated_at.  (Registrations with strategy 'latest' have a
\* bucket, so call_args holds the timestamp and the zone.)  time is what the
\* clock reads, in current_unix_time and in default_dt.
should_refresh_1(call_args, refresh_at, time) ==
    IF refresh_at # None /\ refresh_at > time THEN "False"
    ELSE IF reg.refresh_strategy = "latest"
         THEN LET dt == call_args[timestamp_name]
                  tz == call_args[tz_name]
                  current_bucket == generate_bucket_name(reg.bucket, dt, tz)
                  latest_bucket  == generate_bucket_name(reg.bucket, time, tz)
              IN  IF current_bucket # latest_bucket THEN "updated_at" ELSE "True"
         ELSE "True"

\* should_refresh without the test of the bucket's start.
should_refresh_2_any_start(call_args, updated_at, time) ==
    LET range == get_bucket_range(reg.bucket, call_args[timestamp_name],
                                  call_args[tz_name])
    IN  ~(updated_at # None /\ updated_at > range[2])

\* decorators.should_refresh from updated_at on; time is what the clock reads
\* in tz_now.
should_refresh_2(call_args, updated_at, time) ==
    LET range == get_bucket_range(reg.bucket, call_args[timestamp_name],
                                  call_args[tz_name])
        bucket_start == range[1]
        bucket_end   == range[2]
    IN  IF bucket_start > time THEN FALSE
        ELSE IF updated_at # None /\ updated_at > bucket_end THEN FALSE
        ELSE TRUE

\* decorators.should_refresh called with refresh_at and updated_at: no await;
\* time is what the clock reads during the call.
should_refresh(call_args, refresh_at, updated_at, time) ==
    IF reg.timeout_refresh = None THEN FALSE
    ELSE LET verdict == should_refresh_1(call_args, refresh_at, time)
         IN  IF verdict = "updated_at"
             THEN should_refresh_2(call_args, updated_at, time)
             ELSE verdict = "True"

(* ------------------------------- callers ------------------------------- *)

\* The arguments the model's callers pass.
ArgInputs == {"a"}
IgnoredInputs == {"s1", "s2"}
DtInputs == {None, 0, HourLen}
TzInputs == {"None", "America/Halifax"}
\* start_dt and end_dt of get_timeseries, num_buckets of get_latest_timeseries.
StartInputs == {0}
EndInputs == {0, HourLen}
NumInputs == {1, 2}

\* Function arguments bound by inspect.getcallargs.
BoundArgs ==
    IF reg.bucket = NoBucket
    THEN {[arg |-> a, ignore_me |-> i] : a \in ArgInputs, i \in IgnoredInputs}
    ELSE {[arg |-> a, dt |-> d, tz |-> z] :
             a \in ArgInputs, d \in DtInputs, z \in TzInputs}

\* cache_ttl of a call: None when the keyword is not given; the callers of the
\* registrations without bucket also give it.
TtlInputs == IF reg.bucket = NoBucket THEN {None, 1} ELSE {None}

\* The arguments of the time-series calls: the timestamp is left to default.
SeriesArgs ==
    IF reg.bucket = NoBucket THEN {} ELSE {bound \in BoundArgs : bound.dt = None}

\* The model's caller awaits one call at a time: a call starts when no other
\* call is in flight; refresh tasks run in the background, and with them at
\* most MaxTasks coroutines are in flight when a call starts.
CallerReady ==
    /\ reg.raised = ""
    /\ \A u \in BagToSet(tasks) : u.path = "refresh"
    /\ BagCardinality(tasks) < MaxTasks

(* ------------------------------- actions ------------------------------- *)

\* decorators.get_call_args: the zone defaults to DEFAULT_TIMEZONE and the
\* timestamp to default_dt(), which is tz_now; an aware datetime is kept by
\* parse_timestamp as it is.
get_call_args(bound) ==
    IF reg.bucket = NoBucket THEN bound
    ELSE LET timezone  == IF bound.tz = "None" THEN DEFAULT_TIMEZONE ELSE bound.tz
             timestamp == IF bound.dt = None THEN now ELSE bound.dt
         IN  [bound EXCEPT !.tz = timezone, !.dt = timestamp]

\* timezone.tz_now: the clock moves on.
Tick ==
    /\ now < MaxTime
    /\ now' = now + 1
    /\ ret' = NoReturn
    /\ UNCHANGED <<cache_settings, DEFAULT_CLIENT, reg, redis, zsets, tasks, ncalls, nmsets>>

\* A return that schedules no second refresh task for a key.
Return_deduplicated(rest, t, how, value, refresh) ==
    /\ tasks' = IF refresh /\ \A u \in BagToSet(rest) :
                                 ~(u.path = "refresh" /\ u.cache_key = t.cache_key)
                THEN rest (+) Put(run_cache_refresh(t.call_args, t.cache_key,
                                                     t.cache_ttl))
                ELSE rest
    /\ ret' = Outcome(how, t, value, refresh)

\* A return that schedules the refresh task whatever the verdict is.
Return_always_refreshes(rest, t, how, value, refresh) ==
    /\ tasks' = rest (+) Put(run_cache_refresh(t.call_args, t.cache_key, t.cache_ttl))
    /\ ret' = Outcome(how, t, value, refresh)

\* A foreground call returns: with refresh, the task of run_cache_refresh is
\* scheduled in place of the call's frame.
Return(rest, t, how, value, refresh) ==
    /\ tasks' = IF refresh
                THEN rest (+) Put(run_cache_refresh(t.call_args, t.cache_key,
                                                     t.cache_ttl))
                ELSE rest
    /\ ret' = Outcome(how, t, value, refresh)

\* cached_func that reads the value also with force_cache.
cached_func_path_reads(force_cache, force_refresh, result) ==
    IF result # None
    THEN IF force_refresh THEN "refresh"
         ELSE IF reg.timeout_refresh = None THEN "return" ELSE "policy"
    ELSE "miss"

\* cached_func that leaves the refresh of a hit to should_refresh alone.
cached_func_path_policy(force_cache, force_refresh, result) ==
    IF force_cache THEN "forced"
    ELSE IF result # None
         THEN IF reg.timeout_refresh = None THEN "return" ELSE "policy"
         ELSE "miss"

\* cached_func that computes nothing for a miss while a call that missed is
\* in flight.
cached_func_path_coalesced(force_cache, force_refresh, result) ==
    IF force_cache THEN "forced"
    ELSE IF result # None
         THEN IF force_refresh THEN "refresh"
              ELSE IF reg.timeout_refresh = None THEN "return" ELSE "policy"
         ELSE IF \E u \in BagToSet(tasks) : u.path = "miss" THEN "return" ELSE "miss"

\* decorators.cached_func, lines 96-107: where the call goes from the read of
\* the value (with force_cache nothing is read): run_and_cache after a miss
\* ("miss") or with force_cache ("forced"), the return of a hit with a refresh
\* ("refresh") or without ("return"), or should_refresh's read of refresh_at
\* ("policy").  should_refresh returns False at once for a null
\* timeout_refresh.
cached_func_path(force_cache, force_refresh, result) ==
    IF force_cache THEN "forced"
    ELSE IF result # None
         THEN IF force_refresh THEN "refresh"
              ELSE IF reg.timeout_refresh = None THEN "return" ELSE "policy"
         ELSE "miss"

\* decorators.cached_func, lines 89-97, to its first suspension point:
\* get_call_args reads the clock for a timestamp that is not given, and the
\* call awaits the user computation (force_cache) or the reply of the GET of
\* its value.  cache.get looks the client up before it awaits, line 33:
\* without a client the call ends here with get_cache_client's RuntimeError.
cached_func(bound, force_cache, force_refresh, ttl) ==
    /\ \E call_args \in {get_call_args(bound)} :
       \E cache_key \in {get_cache_key(call_args)} :
           LET cache_ttl == IF ttl = None THEN reg.timeout_ttl ELSE ttl
               t         == [Frame("call", "get", call_args, cache_key,
                                   cache_ttl, None)
                                 EXCEPT !.force_cache = force_cache,
                                        !.force_refresh = force_refresh]
           IN  IF cached_func_path(force_cache, force_refresh, None) = "forced"
               THEN /\ tasks' = tasks (+) Put([t EXCEPT
                                        !.path = "forced", !.pc = "func",
                                        !.call_args = func_kwargs(call_args)])
                    /\ ret' = NoReturn
               ELSE IF Connected
                    THEN /\ tasks' = tasks (+) Put(t)
                         /\ ret' = NoReturn
                    ELSE /\ tasks' = tasks
                         /\ ret' = Outcome("RuntimeError", t, None, FALSE)
    /\ UNCHANGED <<cache_settings, DEFAULT_CLIENT, reg, now, redis, zsets, ncalls, nmsets>>

\* A call of the decorated function by the caller, who awaits one call at a
\* time.
Call(bound, force_cache, force_refresh, ttl) ==
    /\ CallerReady
    /\ cached_func(bound, force_cache, force_refresh, ttl)

\* A frame moves on to its next suspension point.
Goto(t, u) == tasks' = (tasks (-) Put(t)) (+) Put(u)

\* decorators.cached_func, lines 97-107, from the reply of the GET of the
\* value, cache.get lines 35-38: the return of a hit, should_refresh's read of
\* refresh_at, or run_and_cache after a miss.
Get(t) ==
    /\ t.pc = "get"
    /\ \E result \in {get(t.cache_key, None)} :
           LET path == cached_func_path(t.force_cache, t.force_refresh, result)
               rest == tasks (-) Put(t)
               hit  == [t EXCEPT !.path = "hit", !.pc = "refresh_at",
                                 !.result = result]
           IN  CASE path = "miss" ->
                        /\ Goto(t, [t EXCEPT !.path = "miss", !.pc = "func",
                                             !.call_args = func_kwargs(t.call_args)])
                        /\ ret' = NoReturn
                 [] path = "refresh" -> Return(rest, hit, "hit", result, TRUE)
                 [] path = "return"  -> Return(rest, hit, "hit", result, FALSE)
                 [] path = "policy"  ->
                        /\ Goto(t, hit)
                        /\ ret' = NoReturn
    /\ UNCHANGED <<cache_settings, DEFAULT_CLIENT, reg, now, redis, zsets, ncalls, nmsets>>

\* decorators.should_refresh, lines 307-317: get_refresh_at, then on to the
\* verdict or to the read of updated_at.
GetRefreshAt(t) ==
    /\ t.pc = "refresh_at"
    /\ LET refresh_at == get(get_refresh_key(t.cache_key), None)
           verdict    == should_refresh_1(t.call_args, refresh_at, now)
           rest       == tasks (-) Put(t)
       IN  CASE verdict = "True"  -> Return(rest, t, "hit", t.result, TRUE)
             [] verdict = "False" -> Return(rest, t, "hit", t.result, FALSE)
             [] verdict = "updated_at" ->
                    /\ Goto(t, [t EXCEPT !.pc = "updated_at"])
                    /\ ret' = NoReturn
    /\ UNCHANGED <<cache_settings, DEFAULT_CLIENT, reg, now, redis, zsets, ncalls, nmsets>>

\* decorators.should_refresh, lines 317-322: get_updated_at and the verdict.
GetUpdatedAt(t) ==
    /\ t.pc = "updated_at"
    /\ LET updated_at == get(get_updated_key(t.cache_key), None)
       IN  Return(tasks (-) Put(t), t, "hit", t.result,
                  should_refresh_2(t.call_args, updated_at, now))
    /\ UNCHANGED <<cache_settings, DEFAULT_CLIENT, reg, now, redis, zsets, ncalls, nmsets>>

\* The dict series of retrieve_many_buckets, as its items in order: a key
\* seen again keeps its place and takes the later timestamp.
RECURSIVE series_items(_, _, _)
series_items(call_args, timestamps, items) ==
    IF timestamps = <<>> THEN items
    ELSE LET timestamp == Head(timestamps)
             cache_key == get_cache_key([call_args EXCEPT ![timestamp_name] = timestamp])
             at        == {i \in 1..Len(items) : items[i][1] = cache_key}
         IN  series_items(call_args, Tail(timestamps),
                          IF at = {} THEN Append(items, <<cache_key, timestamp>>)
                          ELSE [i \in 1..Len(items) |->
                                   IF i \in at THEN <<cache_key, timestamp>> ELSE items[i]])

\* series[cache_key]
series_get(items, cache_key) ==
    items[CHOOSE i \in 1..Len(items) : items[i][1] = cache_key][2]

\* The loop over missing that leaves call_args as the loop over timestamps
\* left it.
series_next_last_args(t) ==
    IF t.missing # <<>>
    THEN [t EXCEPT !.pc = "func", !.cache_key = Head(t.missing),
                   !.bucket_args = t.call_args]
    ELSE [t EXCEPT !.pc = "info", !.cache_key = "", !.bucket_args = EmptyDict]

\* A retrieve_many_buckets that goes to get_refresh_info with the missing
\* keys not computed.
series_next_no_compute(t) ==
    [t EXCEPT !.pc = "info", !.cache_key = "", !.bucket_args = EmptyDict,
              !.missing = <<>>,
              !.results = [k \in {t.missing[i] : i \in DOMAIN t.missing} |-> None]
                              @@ t.results]

\* The loop of retrieve_many_buckets over missing, at its head: run_and_cache
\* of the next missing key with bucket_args, lines 149-150, or
\* get_refresh_info when none is left.
series_next(t) ==
    IF t.missing # <<>>
    THEN [t EXCEPT !.pc = "func", !.cache_key = Head(t.missing),
                   !.bucket_args =
                       [t.call_args EXCEPT
                           ![timestamp_name] = series_get(t.series, Head(t.missing))]]
    ELSE [t EXCEPT !.pc = "info", !.cache_key = "", !.bucket_args = EmptyDict]

\* decorators.retrieve_many_buckets, lines 138-144, to its first suspension
\* point: the keys of the timestamps, and the call awaits the reply of the
\* MGET of their values.  cache.get_many looks the client up before it
\* awaits, line 54: without a client the call ends here with
\* get_cache_client's RuntimeError.
retrieve_many_buckets(call_args, timestamps) ==
    \E series \in {series_items(call_args, timestamps, <<>>)} :
        LET last_args == [call_args EXCEPT
                             ![timestamp_name] = timestamps[Len(timestamps)]]
            t         == [Frame("series", "mget", last_args, "", reg.timeout_ttl, None)
                              EXCEPT !.series = series]
        IN  IF Connected
            THEN /\ tasks' = tasks (+) Put(t)
                 /\ ret' = NoReturn
            ELSE /\ tasks' = tasks
                 /\ ret' = Outcome("RuntimeError", t, None, FALSE)

\* decorators.retrieve_many_buckets, lines 144-150, from the reply of the MGET
\* of the values, cache.get_many lines 56-61: the keys found and the keys
\* missing, and on to the loop over missing.
Mget(t) ==
    /\ t.pc = "mget"
    /\ \E results \in {get_many([i \in 1..Len(t.series) |-> t.series[i][1]])} :
        LET lookup_keys == [i \in 1..Len(t.series) |-> t.series[i][1]]
            found       == SelectSeq(lookup_keys, LAMBDA key : key \in DOMAIN results)
            missing     == SelectSeq(lookup_keys, LAMBDA key : key \notin DOMAIN results)
        IN  Goto(t, series_next([t EXCEPT !.results = results, !.found = found,
                                          !.missing = missing]))
    /\ ret' = NoReturn
    /\ UNCHANGED <<cache_settings, DEFAULT_CLIENT, reg, now, redis, zsets, ncalls, nmsets>>

\* decorators.get_timeseries
get_timeseries(bound, start_dt, end_dt) ==
    /\ CallerReady
    /\ reg.bucket # NoBucket
    /\ \E call_args \in {get_call_args(bound)} :
       \E ranges \in {find_bucket_ranges(reg.bucket, start_dt, end_dt,
                                         call_args[tz_name])} :
           retrieve_many_buckets(call_args, [i \in 1..Len(ranges) |-> ranges[i][1]])
    /\ UNCHANGED <<cache_settings, DEFAULT_CLIENT, reg, now, redis, zsets, ncalls, nmsets>>

\* decorators.get_latest_timeseries
get_latest_timeseries(bound, num_buckets) ==
    /\ CallerReady
    /\ reg.bucket # NoBucket
    /\ \E call_args \in {get_call_args(bound)} :
       \E ranges \in {latest_bucket_ranges(reg.bucket, call_args[timestamp_name],
                                           call_args[tz_name], num_buckets)} :
           retrieve_many_buckets(call_args, [i \in 1..Len(ranges) |-> ranges[i][1]])
    /\ UNCHANGED <<cache_settings, DEFAULT_CLIENT, reg, now, redis, zsets, ncalls, nmsets>>

\* bucket_args of retrieve_many_buckets for cache_key, lines 156-157
series_bucket_args(t, cache_key) ==
    [t.call_args EXCEPT ![timestamp_name] = series_get(t.series, cache_key)]

\* decorators.retrieve_many_buckets, lines 155-161: the loop over
\* refresh_info from the i-th key found on, entered when the clock reads
\* time with the keys of needs sent to run_cache_refresh.  should_refresh is
\* called key by key and each call reads the clock, which may have moved on
\* since the call before (with a null timeout_refresh it returns before it
\* reads it).  The ways the loop can end: what the clock reads then, and the
\* keys that need a refresh.
RECURSIVE series_refreshes(_, _, _, _, _)
series_refreshes(t, info, i, time, needs) ==
    IF i > Len(t.found) THEN {<<time, needs>>}
    ELSE LET cache_key == t.found[i]
             reads     == IF reg.timeout_refresh = None THEN {time}
                          ELSE time..MaxTime
         IN  UNION { series_refreshes(t, info, i + 1, read,
                        IF should_refresh(series_bucket_args(t, cache_key),
                                          dict_get(info, get_refresh_key(cache_key)),
                                          dict_get(info, get_updated_key(cache_key)),
                                          read)
                        THEN needs \cup {cache_key} ELSE needs) :
                     read \in reads }

\* decorators.retrieve_many_buckets, lines 154-167: get_refresh_info of the
\* keys found, should_refresh of each with the times read, a refresh task for
\* each that needs one, and the return of the (timestamp, value) pairs.
SeriesInfo(t) ==
    /\ t.pc = "info"
    /\ LET refresh_keys == [i \in 1..Len(t.found) |-> get_refresh_key(t.found[i])]
           updated_keys == [i \in 1..Len(t.found) |-> get_updated_key(t.found[i])]
           info         == get_many(refresh_keys \o updated_keys)
       IN  \E outcome \in series_refreshes(t, info, 1, now, {}) :
               /\ now' = outcome[1]
               /\ tasks' = (tasks (-) Put(t))
                           (+) SetToBag({run_cache_refresh(
                                            series_bucket_args(t, cache_key),
                                            cache_key, reg.timeout_ttl) :
                                        cache_key \in outcome[2]})
               /\ ret' = Outcome("series", t,
                                 [i \in 1..Len(t.series) |->
                                     <<t.series[i][2], t.results[t.series[i][1]]>>],
                                 outcome[2] # {})
    /\ UNCHANGED <<cache_settings, DEFAULT_CLIENT, reg, redis, zsets, ncalls, nmsets>>

\* set_refresh_at without the test of timeout_refresh.
set_refresh_at_always(cache_key, time) ==
    get_refresh_key(cache_key) :> (time + 1)

\* decorators.set_refresh_at
set_refresh_at(cache_key, time) ==
    IF reg.timeout_refresh = None THEN EmptyDict
    ELSE get_refresh_key(cache_key) :> (time + reg.timeout_refresh)

\* decorators.set_updated_at
set_updated_at(cache_key, time) == get_updated_key(cache_key) :> time

\* decorators.save_to_cache, lines 258-262
build_cache_data(output, cache_key, time_refresh, time_updated) ==
    (cache_key :> output) @@ set_refresh_at(cache_key, time_refresh)
                          @@ set_updated_at(cache_key, time_updated)

\* The results the user computation may give at its next invocation: a number
\* new at every invocation, or None.
func_outputs == IF reg.func = "number" THEN {ncalls + 1} ELSE {ncalls + 1, None}

\* decorators.run_and_cache, line 252, and save_to_cache up to the MSET of
\* set_many: the user computation returns and cache_data is built from two
\* reads of the clock, current_unix_time in set_refresh_at (line 293) and
\* tz_now in set_updated_at (line 299): the second reads whatever the clock
\* has moved on to since the first.  cache.set_many looks the
\* client up before it awaits, line 65: without a client get_cache_client's
\* RuntimeError, which save_to_cache does not catch, leaves run_and_cache in
\* this step, to the caller of a foreground call or into the task of a
\* refresh.
Func(t) ==
    /\ t.pc = "func"
    /\ ncalls < MaxCalls
    /\ ncalls' = ncalls + 1
    /\ \E output \in func_outputs, later \in now..MaxTime :
          /\ now' = later
          /\ IF Connected
             THEN /\ Goto(t, [t EXCEPT !.pc = "mset", !.output = output,
                                       !.cache_data = build_cache_data(output, t.cache_key,
                                                                       now, later)])
                  /\ ret' = NoReturn
             ELSE /\ tasks' = tasks (-) Put(t)
                  /\ ret' = IF t.path = "refresh" THEN NoReturn
                             ELSE Outcome("RuntimeError", t, None, FALSE)
    /\ UNCHANGED <<cache_settings, DEFAULT_CLIENT, reg, redis, zsets, nmsets>>

\* Python's truth of a timeout: None and 0 are false.
truthy(timeout) == timeout # None /\ timeout # 0

\* A save_to_cache that waits for the clear in flight to return.
Mset_fenced(t) ==
    /\ t.pc = "mset"
    /\ Connected
    /\ \A u \in BagToSet(tasks) : u.path # "clear"
    /\ redis' = set_many(t.cache_data, t.cache_ttl)
    /\ Goto(t, [t EXCEPT !.pc = IF truthy(t.cache_ttl) THEN "zrem" ELSE "zadd",
                         !.cache_data = EmptyDict, !.index_now = now])
    /\ nmsets' = nmsets + 1
    /\ ret' = NoReturn
    /\ UNCHANGED <<cache_settings, DEFAULT_CLIENT, reg, now, zsets, ncalls>>

\* A save_to_cache of a refresh task that waits for the foreground calls in
\* flight.
Mset_after_foreground(t) ==
    /\ t.pc = "mset"
    /\ Connected
    /\ t.path = "refresh" => \A u \in BagToSet(tasks) : u.path = "refresh"
    /\ redis' = set_many(t.cache_data, t.cache_ttl)
    /\ Goto(t, [t EXCEPT !.pc = IF truthy(t.cache_ttl) THEN "zrem" ELSE "zadd",
                         !.cache_data = EmptyDict, !.index_now = now])
    /\ nmsets' = nmsets + 1
    /\ ret' = NoReturn
    /\ UNCHANGED <<cache_settings, DEFAULT_CLIENT, reg, now, zsets, ncalls>>

\* decorators.save_to_cache, line 263, and cache.update_index up to its first
\* command: set_many reaches the store, then update_index reads the clock.
Mset(t) ==
    /\ t.pc = "mset"
    /\ Connected
    /\ redis' = set_many(t.cache_data, t.cache_ttl)
    /\ Goto(t, [t EXCEPT !.pc = IF truthy(t.cache_ttl) THEN "zrem" ELSE "zadd",
                         !.cache_data = EmptyDict, !.index_now = now])
    /\ nmsets' = nmsets + 1
    /\ ret' = NoReturn
    /\ UNCHANGED <<cache_settings, DEFAULT_CLIENT, reg, now, zsets, ncalls>>

\* cache.update_index, line 81
Zrem(t) ==
    /\ t.pc = "zrem"
    /\ zsets' = zremrangebyscore(get_index_key, NegInf, t.index_now - t.cache_ttl)
    /\ Goto(t, [t EXCEPT !.pc = "zadd"])
    /\ ret' = NoReturn
    /\ UNCHANGED <<cache_settings, DEFAULT_CLIENT, reg, now, redis, ncalls, nmsets>>

\* The return of run_and_cache, line 254: to the caller of cached_func, to
\* the loop of retrieve_many_buckets, or the end of the refresh task.
run_and_cache_returns(t) ==
    CASE t.path = "refresh" ->
             /\ tasks' = tasks (-) Put(t)
             /\ ret' = NoReturn
      [] t.path = "series" ->
             /\ Goto(t, series_next([t EXCEPT
                            !.results = (t.cache_key :> t.output) @@ t.results,
                            !.missing = Tail(t.missing),
                            !.output = None, !.cache_data = EmptyDict,
                            !.index_now = None]))
             /\ ret' = NoReturn
      [] OTHER -> Return(tasks (-) Put(t), t, t.path, t.output, FALSE)

\* cache.update_index, line 82, and the return of run_and_cache.
Zadd(t) ==
    /\ t.pc = "zadd"
    /\ zsets' = zadd(get_index_key, t.cache_key, t.index_now)
    /\ run_and_cache_returns(t)
    /\ UNCHANGED <<cache_settings, DEFAULT_CLIENT, reg, now, redis, ncalls, nmsets>>

\* The registrations of the model: a user computation that returns a number
\* or None, plain and with a refresh timeout; one that returns a number, with
\* hourly buckets under each strategy and without a refresh timeout; and the
\* test module's registration with ignore_args.
Registrations ==
    { async_cache_updater("optional", NoOptions),
      async_cache_updater("optional", WithRefresh),
      async_cache_updater("number", Hourly @@ WithRefresh),
      async_cache_updater("number", Hourly @@ WithRefresh @@ Latest),
      async_cache_updater("number", Hourly @@ Latest),
      async_cache_updater("number", IgnoreArgs) }

\* The decorated functions of a process that has run setup_client, over an
\* empty store.
Init ==
    /\ cache_settings = ImportedSettings
    /\ DEFAULT_CLIENT = "Redis"
    /\ reg \in Registrations
    /\ now = 0
    /\ redis = [k \in {} |-> [val |-> Nil, ex |-> None]]
    /\ zsets = [k \in {} |-> [m \in {} |-> 0]]
    /\ tasks = EmptyBag
    /\ ncalls = 0
    /\ nmsets = 0
    /\ ret = NoReturn

Next ==
    \/ Tick
    \/ \E bound \in BoundArgs, force_cache \in BOOLEAN, force_refresh \in BOOLEAN,
          ttl \in TtlInputs : Call(bound, force_cache, force_refresh, ttl)
    \/ \E bound \in SeriesArgs, start_dt \in StartInputs, end_dt \in EndInputs :
          get_timeseries(bound, start_dt, end_dt)
    \/ \E bound \in SeriesArgs, num_buckets \in NumInputs :
          get_latest_timeseries(bound, num_buckets)
    \/ \E t \in BagToSet(tasks) : Get(t)
    \/ \E t \in BagToSet(tasks) : Mget(t)
    \/ \E t \in BagToSet(tasks) : GetRefreshAt(t)
    \/ \E t \in BagToSet(tasks) : GetUpdatedAt(t)
    \/ \E t \in BagToSet(tasks) : SeriesInfo(t)
    \/ \E t \in BagToSet(tasks) : Func(t)
    \/ \E t \in BagToSet(tasks) : Mset(t)
    \/ \E t \in BagToSet(tasks) : Zrem(t)
    \/ \E t \in BagToSet(tasks) : Zadd(t)

Spec == Init /\ [][Next]_vars

(* ----------------------------- clear_cache ----------------------------- *)

\* before and after of clear_cache: the defaults and two finite scores.
BeforeInputs == {PosInf, 0}
AfterInputs == {NegInf, 1}

\* decorators.clear_cache and cache.clear_index, lines 86-88, to its first
\* suspension point: the call awaits the reply of zrangebyscore.  Without a
\* client the call ends here with get_cache_client's RuntimeError.
clear_cache(before, after) ==
    /\ CallerReady
    /\ LET t == [Frame("clear", "zrangebyscore", EmptyDict, "", None, None)
                    EXCEPT !.after = after, !.before = before]
       IN  IF Connected
           THEN /\ tasks' = tasks (+) Put(t)
                /\ ret' = NoReturn
           ELSE /\ tasks' = tasks
                /\ ret' = Outcome("RuntimeError", t, None, FALSE)
    /\ UNCHANGED <<cache_settings, DEFAULT_CLIENT, reg, now, redis, zsets, ncalls, nmsets>>

\* cache.clear_index, line 88: the reply of zrangebyscore, the cache_keys.
ClearZrange(t) ==
    /\ t.path = "clear" /\ t.pc = "zrangebyscore"
    /\ Goto(t, [t EXCEPT !.pc = "delete",
                         !.found = zrangebyscore(get_index_key, t.after, t.before)])
    /\ ret' = NoReturn
    /\ UNCHANGED <<cache_settings, DEFAULT_CLIENT, reg, now, redis, zsets, ncalls, nmsets>>

\* cache.clear_index, line 89: delete_many of the cache_keys read.  DEL without
\* a key is an error reply, a RedisError that clear_cache does not catch.
ClearDelete(t) ==
    /\ t.path = "clear" /\ t.pc = "delete"
    /\ IF t.found = <<>>
       THEN /\ tasks' = tasks (-) Put(t)
            /\ ret' = Outcome("RedisError", t, None, FALSE)
            /\ UNCHANGED redis
       ELSE /\ redis' = delete_many(t.found)
            /\ Goto(t, [t EXCEPT !.pc = "zremrange"])
            /\ ret' = NoReturn
    /\ UNCHANGED <<cache_settings, DEFAULT_CLIENT, reg, now, zsets, ncalls, nmsets>>

\* cache.clear_index, line 90, and the return of clear_cache.
ClearZrem(t) ==
    /\ t.path = "clear" /\ t.pc = "zremrange"
    /\ zsets' = zremrangebyscore(get_index_key, t.after, t.before)
    /\ tasks' = tasks (-) Put(t)
    /\ ret' = Outcome("clear", t, None, FALSE)
    /\ UNCHANGED <<cache_settings, DEFAULT_CLIENT, reg, now, redis, ncalls, nmsets>>

(* ------------------------------- failures ------------------------------ *)

\* What a call may raise: get_cache_client's RuntimeError, the store's errors
\* (aioredis.RedisError, asyncio.TimeoutError), the user computation's.
Exceptions == {"RuntimeError", "RedisError", "TimeoutError", "Exception"}

\* save_to_cache that catches nothing.
_redis_exceptions_none == {}

\* decorators._redis_exceptions: what save_to_cache catches.
_redis_exceptions == {"RedisError", "TimeoutError"}

\* What a command of the store may raise to the coroutine that awaits its
\* reply: aioredis.RedisError, asyncio.TimeoutError.
store_raises == {"RedisError", "TimeoutError"}

\* settings.CacheSettings.setup, lines 52-57: the client, and every keyword
\* that names a setting (the model's keywords are upper-case already).  The
\* model's process runs it once.
setup(client, kwargs) ==
    /\ DEFAULT_CLIENT = "None"
    /\ DEFAULT_CLIENT' = client
    /\ cache_settings' = [name \in DOMAIN cache_settings |->
                             IF name \in DOMAIN kwargs THEN kwargs[name]
                             ELSE cache_settings[name]]
    /\ ret' = NoReturn
    /\ UNCHANGED <<reg, now, redis, zsets, tasks, ncalls, nmsets>>

\* settings.setup_client(client)
setup_client == setup("Redis", NoOptions)

\* The reads of a call: the GET of the value, the MGET of the values, the
\* GET of refresh_at and of updated_at, the MGET of get_refresh_info, and
\* the zrangebyscore of clear_index.
read_pcs == {"get", "mget", "refresh_at", "updated_at", "info", "zrangebyscore"}

\* cache.clear_index, lines 89-90: the DEL of delete_many and the
\* zremrangebyscore, commands that clear_cache awaits outside any try.
clear_pcs == {"delete", "zremrange"}

\* A read that raises and sends the call on to run_and_cache.
Raises_falls_back(t, exc) ==
    /\ t.pc \in {"get", "refresh_at", "updated_at"}
    /\ exc \in store_raises
    /\ Goto(t, [t EXCEPT !.pc = "func", !.path = IF @ = "call" THEN "miss" ELSE @])
    /\ ret' = NoReturn
    /\ UNCHANGED <<cache_settings, DEFAULT_CLIENT, reg, now, redis, zsets, ncalls, nmsets>>

\* The store answers a read of a call or a command of clear_index with an
\* error: nothing catches it, and the exception leaves the call with what the
\* commands before it have done to the store.
Raises(t, exc) ==
    /\ t.pc \in read_pcs \cup clear_pcs
    /\ exc \in store_raises
    /\ tasks' = tasks (-) Put(t)
    /\ ret' = Outcome(exc, t, None, FALSE)
    /\ UNCHANGED <<cache_settings, DEFAULT_CLIENT, reg, now, redis, zsets, ncalls, nmsets>>

\* decorators.save_to_cache, lines 263-267: the store answers the MSET of
\* cache.set_many or a command of cache.update_index with an error.  One of
\* _redis_exceptions is caught and logged, and run_and_cache returns output;
\* another exception leaves run_and_cache, to the caller of a foreground call.
WriteRaises(t, exc) ==
    /\ t.pc \in {"mset", "zrem", "zadd"}
    /\ exc \in store_raises
    /\ IF exc \in _redis_exceptions
       THEN run_and_cache_returns(t)
       ELSE /\ tasks' = tasks (-) Put(t)
            /\ ret' = IF t.path = "refresh" THEN NoReturn
                       ELSE Outcome(exc, t, None, FALSE)
    /\ UNCHANGED <<cache_settings, DEFAULT_CLIENT, reg, now, redis, zsets, ncalls, nmsets>>

\* The user computation raises, and the exception of a refresh task reaches
\* the caller.
FuncRaises_to_caller(t) ==
    /\ t.pc = "func"
    /\ ncalls < MaxCalls
    /\ ncalls' = ncalls + 1
    /\ tasks' = tasks (-) Put(t)
    /\ ret' = Outcome("Exception", t, None, FALSE)
    /\ UNCHANGED <<cache_settings, DEFAULT_CLIENT, reg, now, redis, zsets, nmsets>>

\* decorators.run_and_cache, line 252: the user computation raises.  The
\* exception leaves run_and_cache: to the caller of a foreground call, or into
\* the task of a refresh, which nothing awaits.
FuncRaises(t) ==
    /\ t.pc = "func"
    /\ ncalls < MaxCalls
    /\ ncalls' = ncalls + 1
    /\ tasks' = tasks (-) Put(t)
    /\ ret' = IF t.path = "refresh" THEN NoReturn
               ELSE Outcome("Exception", t, None, FALSE)
    /\ UNCHANGED <<cache_settings, DEFAULT_CLIENT, reg, now, redis, zsets, nmsets>>

(* ---------------------------- specifications -------------------------- *)

\* The operations of Spec and clear_cache.
NextClear ==
    \/ Next
    \/ \E before \in BeforeInputs, after \in AfterInputs : clear_cache(before, after)
    \/ \E t \in BagToSet(tasks) : ClearZrange(t)
    \/ \E t \in BagToSet(tasks) : ClearDelete(t)
    \/ \E t \in BagToSet(tasks) : ClearZrem(t)

SpecClear == Init /\ [][NextClear]_vars

\* Another decorated function of the process: the test module's basic_func,
\* registered without options, which returns its argument.
other_func_name == "basic_func"

\* get_index_key and get_cache_key in the closure of basic_func, for the call
\* basic_func(0).
other_index_key == INDEX_PREFIX \o ":" \o func_module \o ":" \o other_func_name
other_cache_key ==
    hash_key(join(":", <<KEY_PREFIX, func_module, other_func_name, ToString(0)>>))

\* The decorated functions of a process in which a call basic_func(0) has
\* finished at time 0: the store holds its result and its updated entry (its
\* timeout_refresh is null), and its index holds its key.
InitShared ==
    /\ cache_settings = ImportedSettings
    /\ DEFAULT_CLIENT = "Redis"
    /\ reg \in { async_cache_updater("optional", WithRefresh),
                 async_cache_updater("number", Hourly @@ WithRefresh @@ Latest) }
    /\ now = 0
    /\ \E data \in {(other_cache_key :> 0) @@ set_updated_at(other_cache_key, 0)} :
          redis = [k \in DOMAIN data |-> [val |-> _serialize(data[k]), ex |-> None]]
    /\ zsets = (other_index_key :> (other_cache_key :> 0))
    /\ tasks = EmptyBag
    /\ ncalls = 0
    /\ nmsets = 0
    /\ ret = NoReturn

SpecShared == InitShared /\ [][NextClear]_vars

\* The decorated functions of a process that has not run setup_client yet: one
\* without bucket and one with hourly buckets, both with a refresh timeout.
InitBare ==
    /\ cache_settings = ImportedSettings
    /\ DEFAULT_CLIENT = "None"
    /\ reg \in { async_cache_updater("optional", WithRefresh),
                 async_cache_updater("number", Hourly @@ WithRefresh @@ Latest) }
    /\ now = 0
    /\ redis = [k \in {} |-> [val |-> Nil, ex |-> None]]
    /\ zsets = [k \in {} |-> [m \in {} |-> 0]]
    /\ tasks = EmptyBag
    /\ ncalls = 0
    /\ nmsets = 0
    /\ ret = NoReturn

\* The operations of Spec with callers that give neither cache_ttl nor zone,
\* clear_cache, setup_client, and the failures of the store and of the user
\* computation.
\* The arguments of the callers of SpecFaults, who leave the zone to default.
FaultArgs == {bound \in BoundArgs : reg.bucket # NoBucket => bound.tz = "None"}

NextFaults ==
    \/ Tick
    \/ \E bound \in FaultArgs, force_cache \in BOOLEAN, force_refresh \in BOOLEAN :
          Call(bound, force_cache, force_refresh, None)
    \/ \E bound \in SeriesArgs \cap FaultArgs, start_dt \in StartInputs,
          end_dt \in EndInputs : get_timeseries(bound, start_dt, end_dt)
    \/ \E bound \in SeriesArgs \cap FaultArgs, num_buckets \in NumInputs :
          get_latest_timeseries(bound, num_buckets)
    \/ \E t \in BagToSet(tasks) : Get(t)
    \/ \E t \in BagToSet(tasks) : Mget(t)
    \/ \E t \in BagToSet(tasks) : GetRefreshAt(t)
    \/ \E t \in BagToSet(tasks) : GetUpdatedAt(t)
    \/ \E t \in BagToSet(tasks) : SeriesInfo(t)
    \/ \E t \in BagToSet(tasks) : Func(t)
    \/ \E t \in BagToSet(tasks) : Mset(t)
    \/ \E t \in BagToSet(tasks) : Zrem(t)
    \/ \E t \in BagToSet(tasks) : Zadd(t)
    \/ setup_client
    \/ \E before \in BeforeInputs, after \in AfterInputs : clear_cache(before, after)
    \/ \E t \in BagToSet(tasks) : ClearZrange(t)
    \/ \E t \in BagToSet(tasks) : ClearDelete(t)
    \/ \E t \in BagToSet(tasks) : ClearZrem(t)
    \/ \E t \in BagToSet(tasks), exc \in Exceptions : Raises(t, exc)
    \/ \E t \in BagToSet(tasks), exc \in Exceptions : WriteRaises(t, exc)
    \/ \E t \in BagToSet(tasks) : FuncRaises(t)

SpecFaults == InitBare /\ [][NextFaults]_vars

\* The decorated functions with hourly buckets of a process that has run
\* setup_client: one whose computation may return None, one that returns
\* numbers.
InitSeries ==
    /\ cache_settings = ImportedSettings
    /\ DEFAULT_CLIENT = "Redis"
    /\ reg \in { async_cache_updater("optional", Hourly @@ WithRefresh @@ Latest),
                 async_cache_updater("number", Hourly @@ WithRefresh) }
    /\ now = 0
    /\ redis = [k \in {} |-> [val |-> Nil, ex |-> None]]
    /\ zsets = [k \in {} |-> [m \in {} |-> 0]]
    /\ tasks = EmptyBag
    /\ ncalls = 0
    /\ nmsets = 0
    /\ ret = NoReturn

SpecSeries == InitSeries /\ [][Next]_vars

\* The keywords the model's process gives to setup_client besides the client:
\* none, DISABLED, or the three defaults of the registrations.
Disable == "DISABLED" :> TRUE
Defaults == ("DEFAULT_TIMEOUT_TTL" :> 1) @@ ("DEFAULT_TIMEOUT_REFRESH" :> 1)
                @@ ("DEFAULT_REFRESH_STRATEGY" :> "latest")
SetupInputs == {NoOptions, Disable, Defaults}

\* A process that has imported the package and decorated its function, with
\* no option of its own or with hourly buckets, and has not run setup_client
\* yet.
InitSettings ==
    /\ cache_settings = ImportedSettings
    /\ DEFAULT_CLIENT = "None"
    /\ reg \in { async_cache_updater("number", NoOptions),
                 async_cache_updater("number", Hourly @@ WithRefresh @@ Latest) }
    /\ now = 0
    /\ redis = [k \in {} |-> [val |-> Nil, ex |-> None]]
    /\ zsets = [k \in {} |-> [m \in {} |-> 0]]
    /\ tasks = EmptyBag
    /\ ncalls = 0
    /\ nmsets = 0
    /\ ret = NoReturn

\* The operations of Spec, and setup_client with settings.
NextSettings ==
    \/ Next
    \/ \E kwargs \in SetupInputs : setup("Redis", kwargs)

SpecSettings == InitSettings /\ [][NextSettings]_vars

\* A call of the decorated function by a second caller (asyncio.gather, or
\* another task of the loop) while a call of the first is in flight.
ConcurrentCall(bound, force_cache, force_refresh, ttl) ==
    /\ reg.raised = ""
    /\ \E u \in BagToSet(tasks) : u.path # "refresh"
    /\ BagCardinality(tasks) < MaxTasks
    /\ cached_func(bound, force_cache, force_refresh, ttl)

\* The arguments of the call that filled the store before the process began.
EarlierArgs == [arg |-> "a", ignore_me |-> "s1"]

\* The decorated functions of a process with two callers, over an empty
\* store or over the store a finished call of an earlier process left at
\* time 0: the value 0 with its updated and refresh entries, and the key in
\* the index.
InitRace ==
    /\ cache_settings = ImportedSettings
    /\ DEFAULT_CLIENT = "Redis"
    /\ reg = async_cache_updater("number", WithRefresh)
    /\ now = 0
    /\ \E data \in {build_cache_data(0, get_cache_key(EarlierArgs), 0, 0)} :
          \/ /\ redis = [k \in {} |-> [val |-> Nil, ex |-> None]]
             /\ zsets = [k \in {} |-> [m \in {} |-> 0]]
          \/ /\ redis = [k \in DOMAIN data |-> [val |-> _serialize(data[k]), ex |-> None]]
             /\ zsets = (get_index_key :> (get_cache_key(EarlierArgs) :> 0))
    /\ tasks = EmptyBag
    /\ ncalls = 0
    /\ nmsets = 0
    /\ ret = NoReturn

\* The two callers call with the same arguments and without cache_ttl.
NextRace ==
    \/ Tick
    \/ \E force_cache \in BOOLEAN, force_refresh \in BOOLEAN :
          Call(EarlierArgs, force_cache, force_refresh, None)
    \/ \E force_cache \in BOOLEAN, force_refresh \in BOOLEAN :
          ConcurrentCall(EarlierArgs, force_cache, force_refresh, None)
    \/ \E t \in BagToSet(tasks) : Get(t)
    \/ \E t \in BagToSet(tasks) : GetRefreshAt(t)
    \/ \E t \in BagToSet(tasks) : Func(t)
    \/ \E t \in BagToSet(tasks) : Mset(t)
    \/ \E t \in BagToSet(tasks) : Zrem(t)
    \/ \E t \in BagToSet(tasks) : Zadd(t)

SpecRace == InitRace /\ [][NextRace]_vars

\* The zones of the callers of find_bucket_ranges.
ZoneInputs == {"UTC", "US/Eastern", "US/Pacific"}

\* A call of utils.find_bucket_ranges with the rule of the registration: the
\* caller gets start, end and the list of ranges.
FindBucketRanges(start, end, tz) ==
    /\ start <= end
    /\ ret' = [NoReturn EXCEPT !.how = "find_bucket_ranges", !.cache_key = tz,
                               !.value = <<start, end,
                                           find_bucket_ranges(reg.bucket, start, end, tz)>>]
    /\ UNCHANGED <<cache_settings, DEFAULT_CLIENT, reg, now, redis, zsets, tasks,
                   ncalls, nmsets>>

\* A process that calls find_bucket_ranges with the hourly rule.
InitRanges ==
    /\ cache_settings = ImportedSettings
    /\ DEFAULT_CLIENT = "None"
    /\ reg = async_cache_updater("number", Hourly)
    /\ now = 0
    /\ redis = [k \in {} |-> [val |-> Nil, ex |-> None]]
    /\ zsets = [k \in {} |-> [m \in {} |-> 0]]
    /\ tasks = EmptyBag
    /\ ncalls = 0
    /\ nmsets = 0
    /\ ret = NoReturn

NextRanges ==
    \E start \in 0..MaxRange, end \in 0..MaxRange, tz \in ZoneInputs :
        FindBucketRanges(start, end, tz)

SpecRanges == InitRanges /\ [][NextRanges]_vars

(* ------------------------------ properties ----------------------------- *)

\* What a GET of key returns from store: the payload, None for an absent key.
Held(store, key) == IF key \in DOMAIN store THEN store[key].val[2] ELSE None

\* The number of frames of the set S in the bag b.
RECURSIVE Copies(_, _)
Copies(b, S) ==
    IF S = {} THEN 0
    ELSE LET t == CHOOSE x \in S : TRUE
         IN  CopiesIn(t, b) + Copies(b, S \ {t})

\* The refresh tasks in the bag b, and those for cache_key.
Refreshes(b) == Copies(b, {t \in BagToSet(b) : t.path = "refresh"})
RefreshesOf(b, cache_key) ==
    Copies(b, {t \in BagToSet(b) : t.path = "refresh" /\ t.cache_key = cache_key})

\* The frames of calls made by the caller.
Foreground(b) == {t \in BagToSet(b) : t.path # "refresh"}

\* The frame t takes this step.
Stepped(t) == CopiesIn(t, tasks') < CopiesIn(t, tasks)

\* The frame u is new in this step.
Begun(u) == CopiesIn(u, tasks') > CopiesIn(u, tasks)

\* The GET of the value of the cached_func call t is answered in this step.
Answered(t) == t.pc = "get" /\ Stepped(t)

\* The bucket label of normalized call_args.
Label(call_args) ==
    generate_bucket_name(reg.bucket, call_args[timestamp_name], call_args[tz_name])

\* C1 (amended): while a result other than None is stored under a key, a call
\* without force_cache on that key is a hit: it returns the stored result and
\* the user computation is not invoked for it; only an absent key or a stored
\* None is read as a miss.  A compute stores its result under its key and
\* returns that result, and there are never more MSET writes than computes.
C1_StoredResultIsServed ==
    [][ /\ nmsets' <= ncalls'
        /\ \A t \in BagToSet(tasks) : Answered(t) =>
              /\ ~t.force_cache
              /\ ncalls' = ncalls /\ nmsets' = nmsets
              /\ IF Held(redis, t.cache_key) = None
                 THEN /\ ret' = NoReturn
                      /\ \E u \in BagToSet(tasks') :
                            /\ Begun(u) /\ u.path = "miss" /\ u.pc = "func"
                            /\ u.cache_key = t.cache_key
                 ELSE \/ /\ ret'.how = "hit" /\ ret'.cache_key = t.cache_key
                         /\ ret'.value = Held(redis, t.cache_key)
                      \/ /\ ret' = NoReturn
                         /\ \E u \in BagToSet(tasks') :
                               /\ Begun(u) /\ u.path = "hit"
                               /\ u.cache_key = t.cache_key
                               /\ u.result = Held(redis, t.cache_key)
        /\ \A t \in BagToSet(tasks) :
              /\ t.path = "hit" /\ Stepped(t) =>
                    /\ ncalls' = ncalls /\ nmsets' = nmsets
                    /\ ret'.how = "hit" => ret'.value = t.result
              /\ t.path \in {"miss", "forced"} /\ t.pc = "mset" /\ Stepped(t) =>
                    Held(redis', t.cache_key) = t.output
        /\ ret'.how = "hit" => ncalls' = ncalls /\ nmsets' = nmsets
        /\ ret'.how \in {"miss", "forced"} =>
              \E t \in BagToSet(tasks) : Stepped(t) /\ ret'.value = t.output
      ]_vars

\* C1 as stated: once a compute has stored its result under a key, a call
\* without force_cache on that key is not a miss.
C1_AnyStoredResultIsServed ==
    [][ \A t \in BagToSet(tasks) : Answered(t) =>
           \A u \in BagToSet(tasks') :
               Begun(u) /\ u.path = "miss" => t.cache_key \notin DOMAIN redis ]_vars

\* A second call returned the one result computed so far.
C1_Witness ==
    /\ ret.how = "hit" /\ ret.value = 1 /\ ~ret.refresh
    /\ ncalls = 1 /\ nmsets = 1 /\ reg.timeout_refresh = None

\* C2 (amended): for a bucketed registration, a call has the same cache_key
\* as a call with the same other arguments exactly when the timestamps and
\* zones of the two give the same bucket label.  When the GET of a call is
\* answered and a result other than None is held under its key, stored by a
\* call with its label, the call is a hit on that result and the user
\* computation is not invoked; when nothing or None is held under its key,
\* whatever is held under the keys of other labels, the call is a miss and
\* goes on to the user computation.
C2_KeyOfBucketLabel ==
    [][ reg.bucket # NoBucket =>
          \A t \in BagToSet(tasks) : Answered(t) =>
              \E held \in {Held(redis, t.cache_key)} :
                  /\ \A b2 \in BoundArgs :
                        LET c2 == get_call_args(b2)
                        IN  c2.arg = t.call_args.arg =>
                               /\ (Label(c2) = Label(t.call_args))
                                      <=> (get_cache_key(c2) = t.cache_key)
                               /\ Label(c2) = Label(t.call_args) =>
                                      Held(redis, get_cache_key(c2)) = held
                  /\ ncalls' = ncalls
                  /\ IF held # None
                     THEN \/ /\ ret'.how = "hit" /\ ret'.value = held
                             /\ ret'.cache_key = t.cache_key
                          \/ /\ ret'.how = "none"
                             /\ \E u \in BagToSet(tasks') :
                                   /\ Begun(u) /\ u.path = "hit"
                                   /\ u.cache_key = t.cache_key /\ u.result = held
                     ELSE /\ ret'.how = "none"
                          /\ \E u \in BagToSet(tasks') :
                                /\ Begun(u) /\ u.path = "miss" /\ u.pc = "func"
                                /\ u.cache_key = t.cache_key
      ]_vars

\* C2 as stated: a call of a bucketed registration whose key is in the
\* store, written by an earlier call with its label, is a hit.
C2_SameLabelIsHit ==
    [][ reg.bucket # NoBucket =>
          \A t \in BagToSet(tasks) : Answered(t) /\ t.cache_key \in DOMAIN redis =>
              \A u \in BagToSet(tasks') : Begun(u) => u.path # "miss" ]_vars

\* A hit on the key that US/Eastern at HourLen and America/Halifax at 0 share.
C2_Witness ==
    /\ reg.bucket # NoBucket /\ reg.raised = ""
    /\ ret.how = "hit" /\ ret.value = 1 /\ ncalls = 1
    /\ ret.cache_key = get_cache_key([arg |-> "a", dt |-> 0, tz |-> "America/Halifax"])
    /\ ret.cache_key = get_cache_key([arg |-> "a", dt |-> HourLen, tz |-> "US/Eastern"])

\* C3: a registration with ignore_args is made, and calls that differ only in
\* the ignored argument have the same cache_key.
C3_IgnoredArgumentsShareEntry ==
    "ignore_args" \in reg.kwargs =>
        /\ reg.raised = ""
        /\ \A b1, b2 \in BoundArgs :
              b1.arg = b2.arg <=>
                  get_cache_key(get_call_args(b1)) = get_cache_key(get_call_args(b2))

\* C4 (amended): a hit that schedules a refresh returns the cached value it
\* read, without an invocation of the user computation, and adds exactly one
\* refresh task, for its key, at the start of run_and_cache; a refresh task
\* returns nothing to a caller; and when its MSET lands with a result other
\* than None, that result is what a read of the key returns.
C4_StaleWhileRevalidate ==
    [][ /\ ret'.how = "hit" /\ (ret'.refresh \/ Refreshes(tasks') # Refreshes(tasks)) =>
              /\ ret'.refresh
              /\ ncalls' = ncalls
              /\ ret'.value # None
              /\ \E t \in Foreground(tasks) :
                    /\ Stepped(t) /\ t.cache_key = ret'.cache_key
                    /\ ret'.value = IF t.pc = "get" THEN Held(redis, t.cache_key)
                                    ELSE t.result
              /\ Refreshes(tasks') = Refreshes(tasks) + 1
              /\ RefreshesOf(tasks', ret'.cache_key)
                     = RefreshesOf(tasks, ret'.cache_key) + 1
              /\ \E u \in BagToSet(tasks') :
                    /\ u.path = "refresh" /\ u.pc = "func"
                    /\ u.cache_key = ret'.cache_key
                    /\ CopiesIn(u, tasks') = CopiesIn(u, tasks) + 1
        /\ \A t \in BagToSet(tasks) : t.path = "refresh" /\ Stepped(t) =>
              /\ ret' = NoReturn
              /\ t.pc = "mset" /\ t.output # None =>
                    Held(redis', t.cache_key) = t.output
      ]_vars

\* C4 as stated: once the MSET of a refresh task has landed, a read of the key
\* is a hit on the task's result.
C4_RefreshedValueIsServed ==
    [][ \A t \in BagToSet(tasks) :
            t.path = "refresh" /\ t.pc = "mset" /\ Stepped(t) =>
                /\ Held(redis', t.cache_key) # None
                /\ Held(redis', t.cache_key) = t.output ]_vars

\* A hit past its refresh deadline has returned and scheduled its refresh.
C4_Witness ==
    /\ ret.how = "hit" /\ ret.refresh /\ ~ret.force_refresh
    /\ ret.value # None
    /\ RefreshesOf(tasks, ret.cache_key) = 1

\* C5: with a null timeout_refresh, only the return of a hit with
\* force_refresh adds a refresh task, whatever calls and time-series
\* retrievals are made, and the store never holds a refresh key.
C5_NoRefreshWithoutTimeout ==
    [][ reg.timeout_refresh = None =>
          /\ Refreshes(tasks') > Refreshes(tasks) =>
                ret'.how = "hit" /\ ret'.force_refresh
          /\ \A k \in DOMAIN redis' : get_refresh_key(k) \notin DOMAIN redis'
      ]_vars

\* A time-series retrieval of a registration with strategy 'latest' and no
\* timeout_refresh has read a stored bucket and is at its refresh policy.
C5_Witness ==
    /\ reg.timeout_refresh = None /\ reg.refresh_strategy = "latest"
    /\ \E t \in BagToSet(tasks) :
          t.path = "series" /\ t.pc = "info" /\ t.found # <<>>

\* C6: with timeout_refresh set and strategy 'all', a hit without
\* force_refresh returns with a refresh task added if and only if the
\* refresh_at held for its key is absent or not greater than the clock.
C6_RefreshAllByDeadline ==
    [][ reg.timeout_refresh # None /\ reg.refresh_strategy = "all" =>
          \A t \in BagToSet(tasks) : t.path = "hit" /\ Stepped(t) =>
              LET refresh_at == Held(redis, get_refresh_key(t.cache_key))
                  elapsed    == refresh_at = None \/ refresh_at <= now
              IN  /\ ret'.how = "hit" /\ ~ret'.force_refresh
                  /\ ret'.cache_key = t.cache_key
                  /\ Refreshes(tasks') =
                         Refreshes(tasks) + (IF elapsed THEN 1 ELSE 0)
      ]_vars

\* Under 'all', a hit on a bucket other than the current one was refreshed.
C6_Witness ==
    /\ reg.refresh_strategy = "all" /\ reg.bucket # NoBucket
    /\ ret.how = "hit" /\ ret.refresh /\ ~ret.force_refresh
    /\ ret.cache_key # get_cache_key([arg |-> "a", dt |-> now, tz |-> DEFAULT_TIMEZONE])

\* C7: with strategy 'latest', a hit whose refresh_at has elapsed and whose
\* bucket holds the clock returns with a refresh task added; one on another
\* bucket reads updated_at, and then returns with no refresh when the bucket
\* starts after the clock or updated_at is later than the bucket's end, and
\* with a refresh otherwise.
C7_RefreshLatestBucket ==
    [][ reg.timeout_refresh # None /\ reg.refresh_strategy = "latest" =>
          \A t \in BagToSet(tasks) : t.path = "hit" /\ Stepped(t) =>
              LET dt         == t.call_args[timestamp_name]
                  tz         == t.call_args[tz_name]
                  range      == get_hourly_range(dt, tz)
                  holds_now  == range[1] <= now /\ now <= range[2]
                  refresh_at == Held(redis, get_refresh_key(t.cache_key))
                  updated_at == Held(redis, get_updated_key(t.cache_key))
                  elapsed    == refresh_at = None \/ refresh_at <= now
                  added      == Refreshes(tasks') - Refreshes(tasks)
              IN  IF t.pc = "refresh_at"
                  THEN IF elapsed /\ ~holds_now
                       THEN \E u \in BagToSet(tasks') :
                               u = [t EXCEPT !.pc = "updated_at"] /\ ret' = NoReturn
                       ELSE /\ ret'.how = "hit"
                            /\ added = IF elapsed THEN 1 ELSE 0
                  ELSE /\ ret'.how = "hit"
                       /\ added = IF \/ range[1] > now
                                     \/ updated_at # None /\ updated_at > range[2]
                                  THEN 0 ELSE 1
      ]_vars

\* Under 'latest', a hit whose refresh_at has elapsed returned without a
\* refresh: its bucket is not the clock's.
C7_Witness ==
    /\ reg.timeout_refresh # None /\ reg.refresh_strategy = "latest"
    /\ ret.how = "hit" /\ ~ret.refresh
    /\ Held(redis, get_refresh_key(ret.cache_key)) # None
    /\ Held(redis, get_refresh_key(ret.cache_key)) <= now
    /\ tasks = EmptyBag

\* C8 (amended): a call with force_cache is never a hit; it starts at the user
\* computation with nothing read, and returns the result of its own compute
\* with the value key, the updated key and the index entry of its key
\* written, and the refresh key exactly when timeout_refresh is not null.
C8_ForceCacheComputes ==
    [][ /\ Foreground(tasks) = {} =>
              \A t \in Foreground(tasks') : t.path # "series" /\ t.force_cache =>
                  t.path = "forced" /\ t.pc = "func" /\ t.result = None
        /\ \A t \in BagToSet(tasks) : t.force_cache /\ Stepped(t) =>
              t.path = "forced" /\ t.pc \in {"func", "mset", "zrem", "zadd"}
        /\ ret'.how # "none" /\ ret'.force_cache =>
              /\ ret'.how = "forced"
              /\ ~ret'.refresh
              /\ \E t \in BagToSet(tasks) :
                    /\ Stepped(t) /\ t.path = "forced" /\ ret'.value = t.output
              /\ ret'.cache_key \in DOMAIN redis'
              /\ get_updated_key(ret'.cache_key) \in DOMAIN redis'
              /\ get_index_key \in DOMAIN zsets'
              /\ ret'.cache_key \in DOMAIN zsets'[get_index_key]
              /\ (get_refresh_key(ret'.cache_key) \in DOMAIN redis')
                     <=> (reg.timeout_refresh # None)
      ]_vars

\* C8 as stated: a call with force_cache returns with the refresh key of its
\* key written.
C8_ForceCacheWritesRefreshKey ==
    [][ ret'.how = "forced" => get_refresh_key(ret'.cache_key) \in DOMAIN redis' ]_vars

\* The second compute was a call with force_cache on the one key written: it
\* returned 2, and 2 is stored.
C8_Witness ==
    /\ ret.how = "forced" /\ ret.value = 2 /\ nmsets = 2
    /\ Held(redis, ret.cache_key) = 2
    /\ DOMAIN redis \subseteq {ret.cache_key, get_updated_key(ret.cache_key),
                                get_refresh_key(ret.cache_key)}

\* C9: a call with force_refresh and without force_cache returns at once when
\* its key holds a value: that value, with one refresh task added for the
\* key, whatever timeout_refresh and refresh_at are; otherwise it takes the
\* miss path, and returns its own result with no refresh task added.
C9_ForceRefresh ==
    [][ /\ \A t \in BagToSet(tasks) : Answered(t) /\ t.force_refresh =>
              IF Held(redis, t.cache_key) # None
              THEN /\ ret'.how = "hit" /\ ret'.refresh
                   /\ ret'.cache_key = t.cache_key
              ELSE /\ ret' = NoReturn
                   /\ \E u \in BagToSet(tasks') :
                         /\ Begun(u) /\ u.path = "miss" /\ u.pc = "func"
                         /\ u.cache_key = t.cache_key
        /\ ret'.how # "none" /\ ret'.force_refresh /\ ~ret'.force_cache =>
              IF ret'.how = "hit"
              THEN /\ \E t \in BagToSet(tasks) :
                         Answered(t) /\ t.cache_key = ret'.cache_key
                   /\ ret'.value # None
                   /\ ret'.value = Held(redis, ret'.cache_key)
                   /\ ncalls' = ncalls
                   /\ RefreshesOf(tasks', ret'.cache_key)
                          = RefreshesOf(tasks, ret'.cache_key) + 1
                   /\ Refreshes(tasks') = Refreshes(tasks) + 1
              ELSE /\ ret'.how = "miss"
                   /\ Refreshes(tasks') = Refreshes(tasks)
                   /\ \E t \in BagToSet(tasks) : Stepped(t) /\ ret'.value = t.output
      ]_vars

\* A hit with force_refresh scheduled a refresh although its refresh_at is in
\* the future.
C9_Witness ==
    /\ ret.how = "hit" /\ ret.force_refresh /\ ret.refresh
    /\ Held(redis, get_refresh_key(ret.cache_key)) # None
    /\ Held(redis, get_refresh_key(ret.cache_key)) > now
    /\ RefreshesOf(tasks, ret.cache_key) = 1

\* C10: every MSET of a compute-and-store gives each key it writes the expiry
\* cache_ttl.
C10_WritesCarryTtl ==
    [][ \A t \in BagToSet(tasks) : t.pc = "mset" /\ Stepped(t) =>
            \A k \in DOMAIN t.cache_data : redis'[k].ex = t.cache_ttl ]_vars

\* The MSET of frame t lands in this step.
Landed(t) == t.pc = "mset" /\ Stepped(t) /\ nmsets' = nmsets + 1

\* C11: whenever the refresh key and the updated key of a cache_key are both
\* in the store, the stored refresh_at is the unix time of the stored
\* updated_at plus timeout_refresh.
C11_RefreshAtIsUpdatedAtPlusTimeout ==
    \A k \in DOMAIN redis :
        get_refresh_key(k) \in DOMAIN redis /\ get_updated_key(k) \in DOMAIN redis =>
            Held(redis, get_refresh_key(k))
                = Held(redis, get_updated_key(k)) + reg.timeout_refresh

\* The cache_keys the registration can derive: of its callers' arguments, and
\* for a bucketed registration of every timestamp from two hours before the
\* clock's start in every zone.
CacheKeys ==
    IF reg.bucket = NoBucket
    THEN {get_cache_key(bound) : bound \in BoundArgs}
    ELSE {get_cache_key([arg |-> a, dt |-> d, tz |-> z]) :
             a \in ArgInputs, d \in (-(2 * HourLen))..MaxTime,
             z \in {DEFAULT_TIMEZONE} \cup (TzInputs \ {"None"})}

\* C12: whenever no call and no refresh task is in flight, every cache_key
\* whose value is in the store is a member of the index with a score not
\* greater than the clock, and its updated key is in the store.
C12_StoredValueIsIndexed ==
    tasks = EmptyBag =>
        \A k \in CacheKeys \cap DOMAIN redis :
            /\ get_updated_key(k) \in DOMAIN redis
            /\ k \in DOMAIN zset(get_index_key)
            /\ zset(get_index_key)[k] <= now

\* The cache_keys that the clear of frame t read from the index.
Listed(t) == {t.found[i] : i \in DOMAIN t.found}

\* C13: when clear_cache returns, the value key, the updated key and the
\* refresh key of every cache_key it removed are absent from the store.
C13_ClearRemovesTriple ==
    [][ ret'.how = "clear" =>
          \A t \in BagToSet(tasks) : t.path = "clear" /\ Stepped(t) =>
              \A k \in Listed(t) :
                  /\ k \notin DOMAIN redis'
                  /\ get_updated_key(k) \notin DOMAIN redis'
                  /\ get_refresh_key(k) \notin DOMAIN redis'
      ]_vars

\* The clear of frame t has the default range.
FullRange(t) == t.path = "clear" /\ t.before = PosInf /\ t.after = NegInf

\* C14 (amended): the delete of a clear with the default range removes every
\* cache_key that was listed in the index and its return leaves the index
\* without a member; while the clear is in flight a listed key comes back only
\* by the MSET of a refresh task that was in flight with it, and a call
\* started on a key that is absent is a miss.
C14_FullClear ==
    [][ /\ \A t \in BagToSet(tasks) : FullRange(t) /\ Stepped(t) =>
              /\ t.pc = "delete" /\ t.found # <<>> =>
                    /\ \A k \in Listed(t) : k \notin DOMAIN redis'
                    /\ \A k \in DOMAIN redis \ Listed(t) :
                           k \in DOMAIN redis' /\ redis'[k] = redis[k]
                    /\ zsets' = zsets /\ ret' = NoReturn
              /\ t.pc = "zremrange" =>
                    /\ ret'.how = "clear"
                    /\ DOMAIN zset(get_index_key)' = {}
                    /\ redis' = redis
        /\ \A t \in BagToSet(tasks) : FullRange(t) /\ t.pc = "zremrange" =>
              \A k \in Listed(t) :
                  k \notin DOMAIN redis /\ k \in DOMAIN redis' =>
                      \E u \in BagToSet(tasks) :
                          u.path = "refresh" /\ u.cache_key = k /\ Landed(u)
        /\ \A t \in BagToSet(tasks) :
              Answered(t) /\ t.cache_key \notin DOMAIN redis =>
                  /\ ret' = NoReturn
                  /\ \E u \in BagToSet(tasks') :
                        Begun(u) /\ u.path = "miss" /\ u.cache_key = t.cache_key
      ]_vars

\* C14 as stated: when a clear with the default range returns, the index has
\* no member and every cache_key it read from the index is absent.
C14_ClearLeavesNothing ==
    [][ ret'.how = "clear" =>
          \A t \in BagToSet(tasks) : FullRange(t) /\ Stepped(t) =>
              /\ DOMAIN zset(get_index_key)' = {}
              /\ \A k \in Listed(t) : k \notin DOMAIN redis'
      ]_vars

\* A clear has returned with two cache_keys removed: the index is empty, and
\* the updated keys of two cache_keys are in the store without their values.
C14_Witness ==
    /\ ret.how = "clear"
    /\ DOMAIN zset(get_index_key) = {}
    /\ tasks = EmptyBag
    /\ Cardinality({k \in CacheKeys : get_updated_key(k) \in DOMAIN redis}) = 2
    /\ CacheKeys \cap DOMAIN redis = {}

\* The frame t takes this step with a write of save_to_cache that raises: its
\* set_many does not reach the store, or its update_index ends at its first
\* command.
WriteFailed(t) ==
    /\ Stepped(t)
    /\ \/ t.pc = "mset" /\ nmsets' = nmsets
       \/ t.pc = "zrem" /\ \A u \in BagToSet(tasks') : u.pc = "zadd" => ~Begun(u)

\* C15: with a client, a write of save_to_cache that raises in a foreground
\* call changes nothing in the store and raises nothing: cached_func returns
\* the output of the user computation as a miss or a forced call does, and
\* retrieve_many_buckets takes the output as the bucket's result and goes on;
\* no step of a write ends a foreground call with an exception.
C15_WriteErrorSwallowed ==
    [][ Connected =>
          \A t \in Foreground(tasks) :
              /\ t.pc \in {"mset", "zrem", "zadd"} /\ Stepped(t) =>
                    ret'.how \in {"none", "miss", "forced"}
              /\ WriteFailed(t) =>
                    /\ redis' = redis /\ zsets' = zsets /\ ncalls' = ncalls
                    /\ IF t.path = "series"
                       THEN /\ ret' = NoReturn
                            /\ \E u \in Foreground(tasks') :
                                   /\ u.path = "series"
                                   /\ t.cache_key \in DOMAIN u.results
                                   /\ u.results[t.cache_key] = t.output
                       ELSE /\ ret'.how = t.path
                            /\ ret'.value = t.output
                            /\ ret'.cache_key = t.cache_key
                            /\ Foreground(tasks') = {}
      ]_vars

\* A miss has returned the first output of the user computation although no
\* set_many reached the store.
C15_Witness ==
    /\ DEFAULT_CLIENT = "Redis"
    /\ ret.how = "miss" /\ ret.value = 1
    /\ ncalls = 1 /\ nmsets = 0
    /\ ret.cache_key \notin DOMAIN redis

\* The errors of the store.
StoreErrors == {"RedisError", "TimeoutError"}

\* The pcs at which a frame awaits a read of the store: of the value or
\* values, and of the refresh and updated keys.
ReadPcs == {"get", "mget", "refresh_at", "updated_at", "info"}

\* The step ends a call with an error of the store, writes nothing, invokes
\* no user computation and schedules no task.
ReadErrorPropagates ==
    /\ ret'.how \in StoreErrors
    /\ ret'.value = None /\ ~ret'.refresh
    /\ redis' = redis /\ zsets' = zsets
    /\ ncalls' = ncalls /\ nmsets' = nmsets
    /\ Foreground(tasks') = {}
    /\ Refreshes(tasks') = Refreshes(tasks)

\* C16 (amended): with a client, a step of a call at a read of the store
\* either goes the way of the read's result or ends the call with the error
\* of the store; the error reaches the caller with no value, and at and after
\* the failing read the call invokes no user computation, schedules no
\* refresh and writes nothing.  A cached_func call whose read failed has
\* invoked and written nothing at all.
C16_ReadErrorPropagates ==
    [][ Connected =>
          /\ ret'.how \in StoreErrors =>
                \E t \in Foreground(tasks) :
                    Stepped(t) /\ (t.pc \in ReadPcs \/ t.path = "clear")
          /\ \A t \in Foreground(tasks) : t.pc \in ReadPcs /\ Stepped(t) =>
                /\ \/ ret'.how \in {"hit", "series"}
                   \/ /\ ret' = NoReturn /\ t.pc = "get"
                      /\ \E u \in BagToSet(tasks') :
                            /\ Begun(u) /\ u.cache_key = t.cache_key
                            /\ IF Held(redis, t.cache_key) = None
                               THEN u.path = "miss" /\ u.pc = "func"
                               ELSE u.path = "hit" /\ u.pc = "refresh_at"
                   \/ /\ ret' = NoReturn /\ t.pc = "mget"
                      /\ \E u \in BagToSet(tasks') :
                            /\ Begun(u) /\ u.path = "series"
                            /\ u.pc = IF u.missing = <<>> THEN "info" ELSE "func"
                            /\ \A k \in DOMAIN u.results : Held(redis, k) = u.results[k]
                   \/ /\ ret' = NoReturn /\ t.pc = "refresh_at"
                      /\ [t EXCEPT !.pc = "updated_at"] \in BagToSet(tasks')
                   \/ ReadErrorPropagates
                /\ redis' = redis /\ zsets' = zsets /\ ncalls' = ncalls
                /\ t.path \in {"call", "hit"} =>
                      t.output = None /\ t.cache_data = EmptyDict
      ]_vars

\* C16 as stated, for the writes: when a read of a call fails, the store
\* holds no value that the call computed.
C16_FailedCallWroteNothing ==
    [][ \A t \in Foreground(tasks) :
            t.pc \in ReadPcs /\ Stepped(t) /\ ret'.how \in StoreErrors =>
                \A k \in DOMAIN t.results \ Listed(t) :
                    Held(redis', k) # t.results[k]
      ]_vars

\* A call on a key whose value is stored has ended with an error of the
\* store, after the one computation that stored the value.
C16_Witness ==
    /\ ret.how \in StoreErrors
    /\ ret.cache_key \in DOMAIN redis
    /\ ncalls = 1 /\ nmsets = 1
    /\ tasks = EmptyBag

\* C17: no step of a refresh task hands anything to the caller or touches the
\* frame of a foreground call; the call that scheduled the task returned the
\* cached value it had read in the step that scheduled it.  When the task's computation
\* or one of its writes raises, the task ends and the store stays as it was:
\* the value, updated and refresh entries of its key are those stored before
\* and a GET of the key returns the same value.
C17_RefreshFailureIsolated ==
    [][ /\ \A t \in BagToSet(tasks) : t.path = "refresh" /\ Stepped(t) =>
              /\ ret' = NoReturn
              /\ Foreground(tasks') = Foreground(tasks)
              /\ (t.pc = "func" /\ Refreshes(tasks') < Refreshes(tasks))
                 \/ WriteFailed(t) =>
                    /\ redis' = redis /\ zsets' = zsets
                    /\ Refreshes(tasks') = Refreshes(tasks) - 1
                    /\ get(t.cache_key, None) = Held(redis', t.cache_key)
        /\ ret'.refresh /\ ret'.how = "hit" =>
              /\ \E t \in Foreground(tasks) :
                    /\ Stepped(t) /\ t.cache_key = ret'.cache_key
                    /\ ret'.value = IF t.pc = "get" THEN Held(redis, t.cache_key)
                                    ELSE t.result
              /\ ret'.value # None
              /\ RefreshesOf(tasks', ret'.cache_key)
                     = RefreshesOf(tasks, ret'.cache_key) + 1
      ]_vars

\* A refresh task has ended in a failure: after one computation that was
\* stored and a second one, nothing was stored again and no task is left;
\* the value stored first is still there.
C17_Witness ==
    /\ ret.how = "none" /\ now = 0
    /\ tasks = EmptyBag
    /\ ncalls = 2 /\ nmsets = 1
    /\ \E k \in CacheKeys : Held(redis, k) = 1

\* C18: whether a hit schedules a refresh is decided by force_refresh and by
\* the policy over the times read from the store, whatever tasks are in
\* flight; a hit that schedules one adds a refresh task for its key to those
\* already in flight for it, so that two of them run at once.
C18_RefreshesNotDeduplicated ==
    [][ ret'.how = "hit" =>
          /\ RefreshesOf(tasks', ret'.cache_key) =
                 RefreshesOf(tasks, ret'.cache_key) + (IF ret'.refresh THEN 1 ELSE 0)
          /\ Refreshes(tasks') = Refreshes(tasks) + (IF ret'.refresh THEN 1 ELSE 0)
          /\ \A t \in Foreground(tasks) :
                /\ t.pc = "get" => ret'.refresh = t.force_refresh
                /\ t.pc = "refresh_at" =>
                      ret'.refresh =
                          (should_refresh_1(t.call_args,
                                            get(get_refresh_key(t.cache_key), None),
                                            now)
                              = "True")
                /\ t.pc = "updated_at" =>
                      ret'.refresh =
                          should_refresh_2(t.call_args,
                                           get(get_updated_key(t.cache_key), None),
                                           now)
      ]_vars

\* A hit that the policy sent to a refresh has returned while a refresh task
\* for its key was in flight: two refresh tasks for the key are in flight.
C18_Witness ==
    /\ ret.how = "hit" /\ ret.refresh /\ ~ret.force_refresh
    /\ RefreshesOf(tasks, ret.cache_key) = 2

\* No client is to be found: the registration has none of its own and
\* setup_client has not run.
NoClient == reg.client = "None" /\ DEFAULT_CLIENT = "None"

\* C19: while no client is to be found, no step writes to the store.  A
\* call, time-series call or clear started then without force_cache ends in
\* its first step with the RuntimeError of get_cache_client, no user
\* computation invoked; with force_cache the call goes to the user
\* computation first, and when that returns its set_many, the call's first
\* store operation, ends it in the same step with the RuntimeError.
C19_NoClient ==
    [][ NoClient =>
          /\ redis' = redis /\ zsets' = zsets /\ nmsets' = nmsets
          /\ Foreground(tasks) = {}
                 /\ (ret'.how # "none" \/ Foreground(tasks') # {}) =>
                \/ /\ ret'.how = "RuntimeError" /\ ret'.value = None
                   /\ ~ret'.force_cache
                   /\ ncalls' = ncalls /\ tasks' = tasks
                \/ /\ ret'.how = "none" /\ ncalls' = ncalls
                   /\ \A t \in Foreground(tasks') :
                          t.path = "forced" /\ t.pc = "func" /\ t.force_cache
          /\ \A t \in Foreground(tasks) : Stepped(t) =>
                /\ t.path = "forced" /\ t.pc = "func"
                /\ ret'.how \in {"RuntimeError", "Exception"}
                /\ ret'.value = None /\ ret'.force_cache
                /\ ret'.cache_key = t.cache_key
                /\ ncalls' = ncalls + 1
                /\ tasks' = EmptyBag
      ]_vars

\* Before setup_client a call without force_cache has ended with the
\* RuntimeError: no user computation was invoked and the store is empty.
C19_Witness ==
    /\ NoClient
    /\ ret.how = "RuntimeError" /\ ~ret.force_cache
    /\ ret.cache_key # ""
    /\ ncalls = 0 /\ nmsets = 0
    /\ DOMAIN redis = {} /\ DOMAIN zsets = {}

\* The starts of a list of bucket ranges.
Starts(ranges) == [i \in 1..Len(ranges) |-> ranges[i][1]]

\* The bucket ranges a get_timeseries started now enumerates.
EnumeratedRanges ==
    { find_bucket_ranges(reg.bucket, start_dt, end_dt, get_call_args(bound)[tz_name]) :
          bound \in SeriesArgs, start_dt \in StartInputs, end_dt \in EndInputs }

\* The bound timestamp, num_buckets and bucket ranges of the
\* get_latest_timeseries calls that may start now.
EnumeratedLatest ==
    { <<get_call_args(bound)[timestamp_name], num_buckets,
        latest_bucket_ranges(reg.bucket, get_call_args(bound)[timestamp_name],
                             get_call_args(bound)[tz_name], num_buckets)>> :
          bound \in SeriesArgs, num_buckets \in NumInputs }

\* The frames of retrieve_many_buckets in the bag b.
SeriesFrames(b) == {t \in BagToSet(b) : t.path = "series"}

\* C20 (amended): a time-series call keeps one (cache_key, bucket start) item
\* per enumerated bucket, in ascending order, each key that of its bucket;
\* get_latest_timeseries enumerates num_buckets buckets, the last one holding
\* the bound timestamp.  A key whose bulk read gave a value that is not None
\* is found and keeps that value, and no computation is invoked for it; every
\* other key is missing and is computed in the call, in order, with its
\* bucket's start as timestamp, and the output is stored under that key.  The
\* call returns the pairs of bucket start and value in the order of the items.
C20_Series ==
    [][ /\ Foreground(tasks) = {} /\ SeriesFrames(tasks') # {} =>
            \E latest \in {EnumeratedLatest} :
              /\ \A call \in latest :
                    /\ Len(call[3]) = call[2]
                    /\ call[3][call[2]][1] <= call[1]
                    /\ call[1] <= call[3][call[2]][2]
              /\ \A u \in SeriesFrames(tasks') :
                    /\ u.pc = "mget"
                    /\ u.results = EmptyDict /\ u.found = <<>> /\ u.missing = <<>>
                    /\ [i \in 1..Len(u.series) |-> u.series[i][2]]
                           \in {Starts(ranges) : ranges \in EnumeratedRanges}
                                   \cup {Starts(call[3]) : call \in latest}
                    /\ \A i \in 1..Len(u.series) :
                          /\ \A j \in 1..Len(u.series) :
                                 i < j => u.series[i][2] < u.series[j][2]
                          /\ get_bucket_range(reg.bucket, u.series[i][2],
                                              u.call_args[tz_name])[1] = u.series[i][2]
                          /\ u.series[i][1] =
                                 get_cache_key([u.call_args EXCEPT
                                                   ![timestamp_name] = u.series[i][2]])
        /\ \A t \in SeriesFrames(tasks) : t.pc = "mget" /\ Stepped(t) =>
              /\ ret' = NoReturn /\ ncalls' = ncalls
              /\ SeriesFrames(tasks') # {}
              /\ \A u \in SeriesFrames(tasks') :
                    /\ u.series = t.series /\ u.call_args = t.call_args
                    /\ u.pc = IF u.missing = <<>> THEN "info" ELSE "func"
                    /\ \A i \in 1..Len(u.series) :
                          /\ IF Held(redis, u.series[i][1]) # None
                             THEN /\ u.series[i][1] \in Listed(u)
                                  /\ u.series[i][1] \in DOMAIN u.results
                                  /\ u.results[u.series[i][1]] = Held(redis, u.series[i][1])
                                  /\ \A m \in DOMAIN u.missing : u.missing[m] # u.series[i][1]
                             ELSE /\ u.series[i][1] \notin Listed(u)
                                  /\ u.series[i][1] \notin DOMAIN u.results
                                  /\ \E m \in DOMAIN u.missing :
                                         u.missing[m] = u.series[i][1]
                    /\ \A m, n \in DOMAIN u.missing :
                          m < n => series_get(u.series, u.missing[m])
                                       < series_get(u.series, u.missing[n])
        /\ \A t \in SeriesFrames(tasks) : t.pc # "mget" /\ Stepped(t) =>
              /\ t.pc = "func" =>
                    /\ t.cache_key = Head(t.missing)
                    /\ t.cache_key \notin Listed(t)
                    /\ t.bucket_args[timestamp_name] = series_get(t.series, t.cache_key)
                    /\ get_cache_key(t.bucket_args) = t.cache_key
              /\ Landed(t) => Held(redis', t.cache_key) = t.output
              /\ \A u \in SeriesFrames(tasks') :
                    /\ u.series = t.series /\ u.found = t.found
                    /\ \A k \in DOMAIN t.results :
                          k \in DOMAIN u.results /\ u.results[k] = t.results[k]
                    /\ IF t.pc = "zadd"
                       THEN /\ u.missing = Tail(t.missing)
                            /\ u.results[t.cache_key] = t.output
                       ELSE u.missing = t.missing /\ u.results = t.results
              /\ t.pc = "info" =>
                    /\ ret'.how = "series"
                    /\ t.missing = <<>>
                    /\ ret'.value = [i \in 1..Len(t.series) |->
                                        <<t.series[i][2], t.results[t.series[i][1]]>>]
      ]_vars

\* C20 as stated, for the buckets that are present: a key that is in the
\* store at the bulk read is not among the keys to compute.
C20_PresentBucketsNotComputed ==
    [][ \A t \in SeriesFrames(tasks) : t.pc = "mget" /\ Stepped(t) =>
          \A u \in SeriesFrames(tasks') :
              \A m \in DOMAIN u.missing : u.missing[m] \notin DOMAIN redis
      ]_vars

\* A time-series call over two buckets has returned the second value
\* computed for the first bucket and the first value computed, which was
\* cached, for the second.
C20_Witness ==
    /\ ret.how = "series"
    /\ Len(ret.value) = 2
    /\ ret.value[1][1] < ret.value[2][1]
    /\ ret.value[1][2] = 2 /\ ret.value[2][2] = 1
    /\ ncalls = 2 /\ nmsets = 2

\* C21: while DISABLED is true no call returns as a hit, and no time-series
\* call finds a value in the store.
C21_DisabledBypassesCache ==
    [][ cache_settings.DISABLED =>
          /\ ret'.how # "hit"
          /\ \A t \in SeriesFrames(tasks') : t.found = <<>>
      ]_vars

\* C22: for a registration that does not set the option itself, the
\* timeout_ttl of a call that gives no cache_ttl, the timeout_refresh that
\* decides whether a write carries a refresh key, and the refresh_strategy
\* are those of cache_settings.
C22_SetupDefaultsInEffect ==
    [][ DEFAULT_CLIENT = "Redis" =>
          /\ "timeout_ttl" \notin reg.kwargs /\ Foreground(tasks) = {} =>
                \A t \in Foreground(tasks') :
                    t.cache_ttl \in {cache_settings.DEFAULT_TIMEOUT_TTL}
                                       \cup (TtlInputs \ {None})
          /\ "timeout_refresh" \notin reg.kwargs =>
                \A t \in BagToSet(tasks) : Landed(t) =>
                    (get_refresh_key(t.cache_key) \in DOMAIN redis')
                        = (cache_settings.DEFAULT_TIMEOUT_REFRESH # None)
          /\ "refresh_strategy" \notin reg.kwargs =>
                reg.refresh_strategy = cache_settings.DEFAULT_REFRESH_STRATEGY
      ]_vars

\* The range is one whole bucket of the rule in tz: every instant of it has
\* the label of its start, and the instants next to it have another.
WholeBucket(bucket, range, tz) ==
    /\ \A dt \in range[1]..range[2] :
          generate_bucket_name(bucket, dt, tz) = generate_bucket_name(bucket, range[1], tz)
    /\ generate_bucket_name(bucket, range[1] - _us, tz)
           # generate_bucket_name(bucket, range[1], tz)
    /\ generate_bucket_name(bucket, range[2] + _us, tz)
           # generate_bucket_name(bucket, range[1], tz)

\* C23: find_bucket_ranges returns at least one range; the first starts at
\* or before start, the last ends at or after end, each next range starts one
\* tick after the end of the one before, and each is one whole bucket.
C23_RangeCoverage ==
    ret.how = "find_bucket_ranges" =>
        LET start  == ret.value[1]
            end    == ret.value[2]
            ranges == ret.value[3]
        IN  /\ Len(ranges) >= 1
            /\ ranges[1][1] <= start
            /\ ranges[Len(ranges)][2] >= end
            /\ \A i \in 1..(Len(ranges) - 1) : ranges[i + 1][1] = ranges[i][2] + _us
            /\ \A i \in 1..Len(ranges) : WholeBucket(reg.bucket, ranges[i], ret.cache_key)

\* The keys of the items of the time-series call of frame t.
SeriesKeys(t) == {t.series[i][1] : i \in DOMAIN t.series}

\* C24 (amended): in one bulk retrieval the MGET of the values is issued
\* before any store write and any computation of the retrieval; the MGET of
\* the refresh and updated keys is issued after the compute-and-store of every
\* missing bucket, writes nothing, and is the last store operation of the
\* retrieval, which returns in the same step.
C24_ValueReadPrecedesWrites ==
    [][ /\ Foreground(tasks) = {} =>
            \A u \in SeriesFrames(tasks') :
                /\ u.pc = "mget" /\ u.results = EmptyDict
                /\ redis' = redis /\ zsets' = zsets
                /\ ncalls' = ncalls /\ nmsets' = nmsets
        /\ \A t \in SeriesFrames(tasks) : Stepped(t) =>
              CASE t.pc = "mget" ->
                       /\ redis' = redis /\ zsets' = zsets
                       /\ ncalls' = ncalls /\ nmsets' = nmsets
                       /\ t.results = EmptyDict
                       /\ ret'.how = "none"
                       /\ \A u \in SeriesFrames(tasks') :
                             DOMAIN u.results \subseteq Listed(u)
                [] t.pc = "info" ->
                       /\ redis' = redis /\ zsets' = zsets
                       /\ ncalls' = ncalls /\ nmsets' = nmsets
                       /\ t.missing = <<>>
                       /\ DOMAIN t.results = SeriesKeys(t)
                       /\ SeriesKeys(t) \subseteq DOMAIN redis
                       /\ ret'.how = "series"
                       /\ SeriesFrames(tasks') = {}
                [] OTHER ->
                       /\ t.missing # <<>>
                       /\ ret'.how = "none"
      ]_vars

\* C24 as stated: when the MGET of the refresh and updated keys is issued,
\* the retrieval has computed and stored no bucket yet.
C24_InfoReadPrecedesWrites ==
    [][ \A t \in SeriesFrames(tasks) : t.pc = "info" /\ Stepped(t) =>
            DOMAIN t.results \subseteq Listed(t)
      ]_vars

\* A retrieval has found one bucket in the store, has computed and stored
\* another, and is about to read the refresh and updated keys.
C24_Witness ==
    \E t \in SeriesFrames(tasks) :
        /\ t.pc = "info"
        /\ t.found # <<>>
        /\ DOMAIN t.results \ Listed(t) # {}
        /\ DOMAIN t.results \ Listed(t) \subseteq DOMAIN redis

\* The index of the registration after the step.
IndexAfter ==
    IF get_index_key \in DOMAIN zsets' THEN zsets'[get_index_key] ELSE [m \in {} |-> 0]

\* C25 (amended): every MSET that lands is followed by update_index, which
\* reads the clock in the same step; when ttl is set it removes exactly the
\* index members whose score is at most that time less ttl, leaving the
\* others with their scores, and then upserts the written cache_key with
\* that time as score, touching no other member.  The index changes in no
\* other way, and holds one score per cache_key.
C25_UpdateIndex ==
    [][ \E index \in {zset(get_index_key)} :
        /\ \A t \in BagToSet(tasks) : Landed(t) =>
              /\ zsets' = zsets
              /\ \E u \in BagToSet(tasks') :
                    /\ u = [t EXCEPT !.pc = IF t.cache_ttl > 0 THEN "zrem" ELSE "zadd",
                                     !.cache_data = EmptyDict, !.index_now = now]
                    /\ CopiesIn(u, tasks') > CopiesIn(u, tasks)
        /\ \A t \in BagToSet(tasks) : t.pc = "zrem" /\ Stepped(t) =>
              /\ t.cache_ttl > 0
              /\ DOMAIN IndexAfter =
                     {m \in DOMAIN index : index[m] > t.index_now - t.cache_ttl}
              /\ \A m \in DOMAIN IndexAfter : IndexAfter[m] = index[m]
              /\ CopiesIn([t EXCEPT !.pc = "zadd"], tasks')
                     > CopiesIn([t EXCEPT !.pc = "zadd"], tasks)
        /\ \A t \in BagToSet(tasks) : t.pc = "zadd" /\ Stepped(t) =>
              /\ DOMAIN IndexAfter = DOMAIN index \cup {t.cache_key}
              /\ IndexAfter[t.cache_key] = t.index_now
              /\ t.index_now <= now
              /\ \A m \in DOMAIN index \ {t.cache_key} : IndexAfter[m] = index[m]
        /\ zsets' # zsets =>
              /\ \E t \in BagToSet(tasks) : t.pc \in {"zrem", "zadd"} /\ Stepped(t)
              /\ DOMAIN zsets' = {get_index_key}
      ]_vars

\* C25 as stated, for the members kept: the removal of update_index leaves
\* every member whose score is at or after now - ttl in the index.
C25_BoundaryScoreKept ==
    [][ \A t \in BagToSet(tasks) : t.pc = "zrem" /\ Stepped(t) =>
            \A m \in DOMAIN zset(get_index_key) :
                zset(get_index_key)[m] >= t.index_now - t.cache_ttl =>
                    m \in DOMAIN IndexAfter
      ]_vars

\* The index holds two cache_keys, one scored by a write of an earlier time
\* within ttl that a later update_index left in place.
C25_Witness ==
    \E m1, m2 \in DOMAIN zset(get_index_key) :
        /\ zset(get_index_key)[m1] < zset(get_index_key)[m2]
        /\ zset(get_index_key)[m2] = now
        /\ reg.timeout_ttl > now
        /\ tasks = EmptyBag /\ nmsets = 2

\* C26: the write of a refresh task and the write of a foreground call on
\* the same cache_key wait for nothing: a frame whose cache_data is built can
\* write whatever other frames are in flight, and the write that lands last
\* leaves its own output and its own refresh and updated entries in the
\* store, whether or not its computation is the older one.
C26_NoOrderingOfWrites ==
    [][ /\ \A t \in BagToSet(tasks) : t.pc = "mset" => ENABLED Mset(t)
        /\ \A t \in BagToSet(tasks) : Landed(t) =>
              /\ Held(redis', t.cache_key) = t.output
              /\ \A k \in DOMAIN t.cache_data :
                    redis'[k].val = _serialize(t.cache_data[k])
      ]_vars

\* The refresh task scheduled by a hit computed first (output 1), the later
\* forced call computed second (output 2) and wrote first, and the refresh
\* task wrote last: the store holds the older output 1 with the refresh entry
\* of the task's write.
C26_Witness ==
    \E t, u \in BagToSet(tasks) :
        /\ t.path = "refresh" /\ t.pc \in {"zrem", "zadd"} /\ t.output = 1
        /\ u.path = "forced" /\ u.pc \in {"zrem", "zadd"} /\ u.output = 2
        /\ u.cache_key = t.cache_key
        /\ Held(redis, t.cache_key) = 1
        /\ get_refresh_key(t.cache_key) \in DOMAIN redis
        /\ ncalls = 2 /\ nmsets = 2

\* The other order: the refresh task computed first and wrote first, and the
\* forced call wrote last: the store holds the newer output 2.
C26_ForegroundWritesLast ==
    \E t, u \in BagToSet(tasks) :
        /\ t.path = "refresh" /\ t.pc \in {"zrem", "zadd"} /\ t.output = 1
        /\ u.path = "forced" /\ u.pc \in {"zrem", "zadd"} /\ u.output = 2
        /\ u.cache_key = t.cache_key
        /\ Held(redis, t.cache_key) = 2
        /\ ncalls = 2 /\ nmsets = 2

\* C27: a call without force_cache that reads its key as absent begins its
\* own run_and_cache whatever calls are in flight on the key, and does not
\* return at that step; every call that missed invokes the user computation
\* itself, writes its own output under the key, and returns its own output,
\* which no other call in flight has.
C27_MissesNotCoalesced ==
    [][ /\ \A t \in BagToSet(tasks) : Answered(t) /\ Held(redis, t.cache_key) = None =>
              /\ ret' = NoReturn
              /\ BagCardinality(tasks') = BagCardinality(tasks)
              /\ \E u \in BagToSet(tasks') :
                    /\ Begun(u) /\ u.path = "miss" /\ u.pc = "func"
                    /\ u.cache_key = t.cache_key /\ u.output = None
        /\ \A t \in BagToSet(tasks) : t.path = "miss" /\ Stepped(t) =>
              /\ t.pc = "func" =>
                    /\ ncalls' = ncalls + 1
                    /\ \E u \in BagToSet(tasks') :
                          Begun(u) /\ u.pc = "mset" /\ u.output = ncalls + 1
              /\ t.pc = "mset" =>
                    /\ nmsets' = nmsets + 1
                    /\ Held(redis', t.cache_key) = t.output
              /\ t.pc = "zadd" =>
                    /\ ret'.how = "miss" /\ ret'.value = t.output
                    /\ t.output # None
                    /\ \A u \in BagToSet(tasks') : u.output # t.output
              /\ t.pc # "zadd" => ret'.how = "none"
        /\ ret'.how = "miss" =>
              \E t \in BagToSet(tasks) : t.path = "miss" /\ t.pc = "zadd" /\ Stepped(t)
      ]_vars

\* Two calls on the same key both read it as absent; each has invoked the
\* computation and written its own output, and each is about to return it.
C27_Witness ==
    \E t, u \in BagToSet(tasks) :
        /\ t.path = "miss" /\ u.path = "miss"
        /\ t.cache_key = u.cache_key
        /\ t.pc = "zadd" /\ u.pc = "zadd"
        /\ t.output = 1 /\ u.output = 2
        /\ ncalls = 2 /\ nmsets = 2

\* The members of the index whose score lies in the range of the clear of
\* frame t.
Ranged(t) ==
    {m \in DOMAIN zset(get_index_key) :
        t.after <= zset(get_index_key)[m] /\ zset(get_index_key)[m] <= t.before}

\* The keys of the store that belong to other computations: not a cache_key
\* of the registration, nor the updated or refresh key of one.
OtherKeys(store) ==
    DOMAIN store \ (CacheKeys \cup {get_updated_key(k) : k \in CacheKeys}
                              \cup {get_refresh_key(k) : k \in CacheKeys})

\* C28 (amended): clear_cache(before, after) reads exactly the cache_keys
\* whose index score lies in [after, before]; its delete removes the values of
\* exactly the keys read and nothing else; its last step removes exactly the
\* index entries whose score lies in [after, before] then, leaves the other
\* entries with their scores and touches no value.  No step of a clear
\* changes a key or an index of another computation, whatever its score.
C28_ClearRange ==
    [][ /\ \A u \in BagToSet(tasks') : u.path = "clear" /\ Begun(u) /\ u.pc = "delete" =>
              /\ Listed(u) = Ranged(u)
              /\ Len(u.found) = Cardinality(Ranged(u))
              /\ redis' = redis /\ zsets' = zsets
        /\ \A t \in BagToSet(tasks) : t.path = "clear" /\ Stepped(t) =>
              /\ t.pc = "delete" /\ t.found # <<>> =>
                    /\ DOMAIN redis' = DOMAIN redis \ Listed(t)
                    /\ \A k \in DOMAIN redis' : redis'[k] = redis[k]
                    /\ zsets' = zsets
              /\ t.pc = "zremrange" =>
                    /\ ret'.how = "clear"
                    /\ DOMAIN IndexAfter = DOMAIN zset(get_index_key) \ Ranged(t)
                    /\ \A m \in DOMAIN IndexAfter :
                          IndexAfter[m] = zset(get_index_key)[m]
                    /\ redis' = redis
              /\ \A k \in OtherKeys(redis) : k \in DOMAIN redis' /\ redis'[k] = redis[k]
              /\ \A i \in DOMAIN zsets \ {get_index_key} :
                    i \in DOMAIN zsets' /\ zsets'[i] = zsets[i]
      ]_vars

\* C28 as stated: when clear_cache returns, every cache_key whose score lay
\* in the range has neither value nor index entry, and every other indexed
\* cache_key that had a value has both.
C28_ClearedExactlyRange ==
    [][ ret'.how = "clear" =>
          \A t \in BagToSet(tasks) : t.path = "clear" /\ Stepped(t) =>
              \A m \in DOMAIN zset(get_index_key) :
                  IF m \in Ranged(t)
                  THEN m \notin DOMAIN redis' /\ m \notin DOMAIN IndexAfter
                  ELSE /\ m \in DOMAIN IndexAfter
                       /\ m \in DOMAIN redis => m \in DOMAIN redis'
      ]_vars

\* A clear over the scores up to 0 has returned: one cache_key has lost its
\* value and its index entry, another, scored later, has kept both, and the
\* key of basic_func, scored 0 in the index of basic_func, has kept its value
\* and its entry.
C28_Witness ==
    /\ ret.how = "clear"
    /\ tasks = EmptyBag
    /\ \E k1, k2 \in CacheKeys :
          /\ k1 \in DOMAIN redis /\ k1 \in DOMAIN zset(get_index_key)
          /\ zset(get_index_key)[k1] >= 1
          /\ get_updated_key(k2) \in DOMAIN redis
          /\ k2 \notin DOMAIN redis /\ k2 \notin DOMAIN zset(get_index_key)
    /\ Held(redis, other_cache_key) = 0
    /\ zset(other_index_key) = (other_cache_key :> 0)

\* The cache_keys under which the store holds a result of None.
StoredNone == {k \in DOMAIN redis : Held(redis, k) = None} \cap CacheKeys

\* C29: no hit and no found bucket carries None.  A call without force_cache
\* on a key that holds a stored None does not return at its read and begins
\* run_and_cache as a miss; a time-series retrieval puts every such key of
\* its buckets among the missing ones, and not among the found; and every
\* frame of a miss or of a missing bucket invokes the user computation.
C29_NoneNeverServed ==
    [][ /\ ret'.how = "hit" => ret'.value # None
        /\ \A t \in SeriesFrames(tasks') : \A k \in Listed(t) : t.results[k] # None
        /\ \A t \in Foreground(tasks) : t.pc \in {"get", "mget"} /\ Stepped(t) =>
              \E none \in {StoredNone} :
                /\ ret'.how = "hit" => ret'.cache_key \notin none
                /\ t.pc = "get" /\ t.cache_key \in none =>
                      /\ ret' = NoReturn
                      /\ \E u \in BagToSet(tasks') :
                            /\ Begun(u) /\ u.path = "miss" /\ u.pc = "func"
                            /\ u.cache_key = t.cache_key
                /\ t.pc = "mget" =>
                      \A u \in SeriesFrames(tasks') :
                          \A k \in SeriesKeys(u) \cap none :
                              /\ k \notin Listed(u)
                              /\ \E i \in DOMAIN u.missing : u.missing[i] = k
        /\ \A t \in Foreground(tasks) : t.pc = "func" /\ Stepped(t) =>
              /\ ncalls' = ncalls + 1
              /\ ret'.how = "none"
      ]_vars

\* A call without force_cache on a key that holds a stored None has missed
\* and has invoked the computation a second time.
C29_Witness ==
    \E t \in BagToSet(tasks) :
        /\ t.path = "miss" /\ t.pc = "mset"
        /\ t.cache_key \in StoredNone
        /\ ncalls = 2 /\ nmsets = 1

\* A time-series retrieval has a bucket whose key holds a stored None among
\* its missing ones and has invoked the computation for it.
C29_SeriesRecomputes ==
    \E t \in SeriesFrames(tasks) :
        /\ t.pc = "mset"
        /\ t.cache_key \in StoredNone
        /\ t.missing # <<>> /\ Head(t.missing) = t.cache_key
        /\ ncalls = 2 /\ nmsets = 1

\* The step leaves the store and the counters of computations and writes as
\* they are.
StoreUntouched ==
    redis' = redis /\ zsets' = zsets /\ ncalls' = ncalls /\ nmsets' = nmsets

\* C30: every step of a call on its way to a hit (the read of the value, of
\* the refresh key, of the updated key, and the return) leaves the value,
\* updated and refresh keys and the index as they are, and a hit that returns
\* without a refresh leaves no task behind: the tasks in flight are those
\* there were, less the frame of the call.
C30_HitReadsOnly ==
    [][ /\ ret'.how = "hit" => StoreUntouched
        /\ \A t \in BagToSet(tasks) :
              t.path \in {"call", "hit"} /\ Stepped(t) => StoreUntouched
        /\ \A u \in BagToSet(tasks') :
              u.path \in {"call", "hit"} /\ Begun(u) => StoreUntouched
        /\ ret'.how = "hit" /\ ~ret'.refresh =>
              /\ Refreshes(tasks') = Refreshes(tasks)
              /\ \E t \in Foreground(tasks) :
                    /\ t.path \in {"call", "hit"}
                    /\ tasks' = tasks (-) Put(t)
      ]_vars

\* A hit has read the value and the refresh key, has returned the stored
\* value without a refresh, and the one value written is the one stored.
C30_Witness ==
    /\ ret.how = "hit" /\ ~ret.refresh /\ ~ret.force_refresh
    /\ reg.timeout_refresh # None
    /\ ret.value = 1 /\ Held(redis, ret.cache_key) = 1
    /\ get_refresh_key(ret.cache_key) \in DOMAIN redis
    /\ tasks = EmptyBag
    /\ ncalls = 1 /\ nmsets = 1

\* The frames of clear_cache in the bag b.
Clears(b) == {t \in BagToSet(b) : t.path = "clear"}

\* C31: clear_cache cancels and fences nothing.  The step that begins a
\* clear and every step of a clear leave the frames of the refresh tasks in
\* flight as they are; a frame whose cache_data is built can write while a
\* clear is in flight; and its write lands whatever the clear has read: the
\* key holds the frame's output after it, also when the clear listed the key.
C31_ClearFencesNothing ==
    [][ /\ (Clears(tasks') # Clears(tasks)) =>
              \A u \in BagToSet(tasks) \cup BagToSet(tasks') :
                  u.path = "refresh" => CopiesIn(u, tasks') = CopiesIn(u, tasks)
        /\ \A u \in BagToSet(tasks) : u.pc = "mset" => ENABLED Mset(u)
        /\ \A u \in BagToSet(tasks) : Landed(u) =>
              /\ Held(redis', u.cache_key) = u.output
              /\ Clears(tasks') = Clears(tasks)
      ]_vars

\* clear_cache has returned at time 0, when update_index prunes nothing; a
\* refresh task started before it wrote and indexed its key between the
\* clear's read of the range and its removal: the key's value is present and
\* its index entry is gone.
C31_Witness ==
    /\ ret.how = "clear"
    /\ now = 0
    /\ tasks = EmptyBag
    /\ ncalls = 2 /\ nmsets = 2
    /\ \E k \in CacheKeys :
          /\ k \in DOMAIN redis /\ Held(redis, k) = 2
          /\ k \notin DOMAIN zset(get_index_key)

\* clear_cache has returned at time 0 with a refresh task started before it
\* still in flight: the task has written after the clear's delete, and the
\* cleared key is present again.
C31_PresentAgain ==
    /\ ret.how = "clear"
    /\ now = 0
    /\ \E u \in BagToSet(tasks) :
          /\ u.path = "refresh" /\ u.pc \in {"zrem", "zadd"}
          /\ u.output = 2 /\ Held(redis, u.cache_key) = 2
          /\ u.cache_key \notin DOMAIN zset(get_index_key)

====
